---- MODULE Spec2Model ----
(***************************************************************************)
(* Model of the spreadsheet order parser of the order tool                 *)
(* (src/parsing.py): parse_item_catalog, normalize_name,                   *)
(* parse_order_content and parse_orders_and_items.                         *)
(*                                                                         *)
(* Strings are sequences of one-character strings.  The module is ASCII,   *)
(* so each CJK character of the source is written as one capital letter:   *)
(*   "选择配送" = Q Z P S      "总价" = G J      "，" (U+FF0C) = ";"         *)
(*   "商品汇总" = M N H G      "商品" = M N      "总计" = G T                *)
(*   "序号"     = R O                                                      *)
(* Money is an integer number of thousandths (1.50 = 1500), so that        *)
(* round(total, 2) is a real rounding step.                                *)
(***************************************************************************)
EXTENDS Integers, Sequences, FiniteSets, TLC

VARIABLES
    pc,           \* position of the run: which step of which entry point is next
    df,           \* the sheet as read by pd.read_excel: [ncols, rows]
    catalog_df,   \* parse_item_catalog: the catalog rows, deduplicated
    price_map,    \* the name -> unit price mapping (an insertion-ordered dict)
    orders_raw,   \* indices of the qualifying order rows still to be parsed
    orders_out,   \* parse_orders_and_items: accumulated order records
    items_out,    \* parse_orders_and_items: accumulated item records
    issues_out,   \* parse_orders_and_items: accumulated issue records
    next_uuid,    \* number of identifiers handed out so far by uuid4
    ret,          \* what parse_orders_and_items gave back to its caller
    content,      \* the content cell handed to parse_order_content
    poc,          \* what parse_order_content gave back to its caller
    first_run,    \* what an earlier run of the parser on the same sheet gave back
    db_orders,    \* the rows of table orders of the SQLite store
    db_items,     \* the rows of table items
    db_catalog,   \* the rows of table catalog
    last,         \* the handler of the app that ran last, with its arguments
    session_state,\* st.session_state of each browser session
    script_run,   \* the script run of each session: its dialogs, what it read
    browser       \* the dialog each browser shows

appVars == <<first_run, db_orders, db_items, db_catalog, last>>

uiVars == <<session_state, script_run, browser>>

vars == <<pc, df, catalog_df, price_map, orders_raw, orders_out, items_out,
          issues_out, next_uuid, ret, content, poc, first_run, db_orders,
          db_items, db_catalog, last, session_state, script_run, browser>>

-----------------------------------------------------------------------------
(* Bounds *)

MaxSegs == 2      \* segments in a content cell handed to parse_order_content
MaxRows == 5      \* rows of a sheet

-----------------------------------------------------------------------------
(* Characters and strings *)

\* The characters in code point order (the order Python compares str by).
Alphabet ==
    <<"\t", " ", ",", ".", "0", "1", "2", "3", "4", "5", "6", "7", "8", "9",
      "a", "b", "c", "n", "u", "v", "w", "x", "z",
      "G", "H", "J", "M", "N", "O", "P", "Q", "R", "S", "T", "Z", ";">>

Ord(c) == CHOOSE i \in 1..Len(Alphabet) : Alphabet[i] = c

Whitespace == {" ", "\t"}
Digit == {"0", "1", "2", "3", "4", "5", "6", "7", "8", "9"}
Commas == {",", ";"}

DigitVal(c) == Ord(c) - Ord("0")

SetMin(S) == CHOOSE m \in S : \A o \in S : m <= o
SetMax(S) == CHOOSE m \in S : \A o \in S : o <= m

\* str.strip(chars)
StripChars(s, cs) ==
    LET idx == {i \in 1..Len(s) : s[i] \notin cs}
    IN  IF idx = {} THEN <<>> ELSE SubSeq(s, SetMin(idx), SetMax(idx))

\* str.strip()
Strip(s) == StripChars(s, Whitespace)

\* sub in s
Contains(sub, s) ==
    \E i \in 0..(Len(s) - Len(sub)) : SubSeq(s, i + 1, i + Len(sub)) = sub

\* s.startswith(prefix)
StartsWith(s, prefix) ==
    /\ Len(prefix) <= Len(s)
    /\ SubSeq(s, 1, Len(prefix)) = prefix

\* a < b for two str
StrLess(a, b) ==
    \/ /\ Len(a) < Len(b)
       /\ SubSeq(b, 1, Len(a)) = a
    \/ \E i \in 1..Len(a) :
          /\ i <= Len(b)
          /\ SubSeq(a, 1, i - 1) = SubSeq(b, 1, i - 1)
          /\ Ord(a[i]) < Ord(b[i])

\* the first index >= i of t that does not hold whitespace (Len(t) + 1 if none)
SkipWs(t, i) ==
    SetMin({j \in i..(Len(t) + 1) : j = Len(t) + 1 \/ t[j] \notin Whitespace})

RECURSIVE CollapseWs(_)
\* re.sub(r"\s+", " ", t)
CollapseWs(t) ==
    IF t = <<>> THEN <<>>
    ELSE IF Head(t) \in Whitespace
         THEN <<" ">> \o CollapseWs(SubSeq(t, SkipWs(t, 1), Len(t)))
         ELSE <<Head(t)>> \o CollapseWs(Tail(t))

normalize_name(s) == CollapseWs(Strip(s))

RECURSIVE SplitFrom(_, _, _)
SplitFrom(t, i, cur) ==
    IF i > Len(t) THEN <<cur>>
    ELSE IF t[i] \in Commas
         THEN <<cur>> \o SplitFrom(t, SkipWs(t, i + 1), <<>>)
         ELSE SplitFrom(t, i + 1, Append(cur, t[i]))

\* re.split(r"[，,]\s*", text)
re_split(text) == SplitFrom(text, 1, <<>>)

\* t matches \s*\d+\s* : the digits are t[a..b]
TailDigits(t) ==
    {ab \in (1..Len(t)) \X (1..Len(t)) :
        /\ ab[1] <= ab[2]
        /\ \A i \in 1..Len(t) :
              IF i < ab[1] \/ i > ab[2] THEN t[i] \in Whitespace
              ELSE t[i] \in Digit}

\* re.search(r"x\s*(\d+)\s*$", p): the start of the leftmost match, 0 if none
QtyStart(p) ==
    LET starts == {i \in 1..Len(p) :
                      /\ p[i] = "x"
                      /\ TailDigits(SubSeq(p, i + 1, Len(p))) # {}}
    IN  IF starts = {} THEN 0 ELSE SetMin(starts)

\* m.group(1)
QtyDigits(p) ==
    LET t  == SubSeq(p, QtyStart(p) + 1, Len(p))
        ab == CHOOSE x \in TailDigits(t) : TRUE
    IN  SubSeq(t, ab[1], ab[2])

RECURSIVE int(_)
\* int(digits)
int(d) ==
    IF d = <<>> THEN 0
    ELSE 10 * int(SubSeq(d, 1, Len(d) - 1)) + DigitVal(d[Len(d)])

-----------------------------------------------------------------------------
(* Optional values and insertion-ordered dicts *)

None == [none |-> TRUE, v |-> 0]
Some(x) == [none |-> FALSE, v |-> x]

\* A dict is the sequence of its [k, v] entries in insertion order.
DictKeys(d) == [i \in 1..Len(d) |-> d[i].k]
DictHas(d, key) == \E i \in 1..Len(d) : d[i].k = key
DictGet(d, key) == (CHOOSE i \in 1..Len(d) : d[i].k = key)
DictValue(d, key) == d[DictGet(d, key)].v

\* d[key] = val: a new key goes last, a known key keeps its place
DictPut(d, key, val) ==
    IF DictHas(d, key)
    THEN [d EXCEPT ![DictGet(d, key)] = [k |-> key, v |-> val]]
    ELSE Append(d, [k |-> key, v |-> val])

RECURSIVE NormInto(_, _, _)
NormInto(pm, i, acc) ==
    IF i > Len(pm) THEN acc
    ELSE NormInto(pm, i + 1, DictPut(acc, normalize_name(pm[i].k), pm[i].v))

\* {normalize_name(k): v for k, v in price_map.items()}
norm_price_map(pm) == NormInto(pm, 1, <<>>)

-----------------------------------------------------------------------------
(* parse_order_content *)

delivery_prefixes == {<<"Q", "Z", "P", "S">>}
TotalPriceMark == <<"G", "J">>

SkippedNoQty == "Skipped segment without trailing quantity 'xN'"
MissingPrice == "Missing price match for item"
NoParsedItems == "No parsed items"

\* the keys k of the normalised map with k in name or name in k, in dict order
Candidates(name, npm) ==
    SelectSeq(DictKeys(npm), LAMBDA k : Contains(k, name) \/ Contains(name, k))

\* Canonical with the sort ascending: the shortest key comes first
Canonical_Shortest(cands) ==
    LET ks == {cands[i] : i \in 1..Len(cands)}
    IN  CHOOSE k \in ks :
            \A o \in ks :
                \/ Len(k) < Len(o)
                \/ Len(o) = Len(k) /\ (o = k \/ StrLess(k, o))

\* Canonical with a stable sort on the length alone: among the longest keys
\* the first of the dict order comes first
Canonical_FirstLongest(cands) ==
    cands[SetMin({i \in 1..Len(cands) :
                     \A j \in 1..Len(cands) : Len(cands[j]) <= Len(cands[i])})]

\* candidates.sort(reverse=True); candidates[0][1] on the (len(k), k) tuples
Canonical(cands) ==
    LET ks == {cands[i] : i \in 1..Len(cands)}
    IN  CHOOSE k \in ks :
            \A o \in ks :
                \/ Len(o) < Len(k)
                \/ Len(o) = Len(k) /\ (o = k \/ StrLess(o, k))

\* SegmentItem without the warning of the no-match branch
SegmentItem_NoWarning(p, npm) ==
    LET qty  == int(QtyDigits(p))
        name == normalize_name(SubSeq(p, 1, QtyStart(p) - 1))
        cands == Candidates(name, npm)
    IN  IF DictHas(npm, name)
        THEN [item |-> [name |-> name, quantity |-> qty,
                        price |-> Some(DictValue(npm, name))],
              warn |-> <<>>]
        ELSE IF cands # <<>>
        THEN [item |-> [name |-> Canonical(cands), quantity |-> qty,
                        price |-> Some(DictValue(npm, Canonical(cands)))],
              warn |-> <<>>]
        ELSE [item |-> [name |-> name, quantity |-> qty, price |-> None],
              warn |-> <<>>]

\* lines 129-146: the item of a segment p whose quantity match starts at m
SegmentItem(p, npm) ==
    LET qty  == int(QtyDigits(p))
        name == normalize_name(SubSeq(p, 1, QtyStart(p) - 1))
        cands == Candidates(name, npm)
    IN  IF DictHas(npm, name)
        THEN [item |-> [name |-> name, quantity |-> qty,
                        price |-> Some(DictValue(npm, name))],
              warn |-> <<>>]
        ELSE IF cands # <<>>
        THEN [item |-> [name |-> Canonical(cands), quantity |-> qty,
                        price |-> Some(DictValue(npm, Canonical(cands)))],
              warn |-> <<>>]
        ELSE [item |-> [name |-> name, quantity |-> qty, price |-> None],
              warn |-> <<[msg |-> MissingPrice, arg |-> name]>>]

\* p = raw_part.strip().strip(" ，,")
TrimPart(raw_part) == StripChars(Strip(raw_part), {" ", ";", ","})

\* QuantityStep that puts the new item ahead of the items parsed so far
QuantityStep_Prepend(acc, p, npm) ==
    IF QtyStart(p) = 0
    THEN [acc EXCEPT !.warnings = Append(@, [msg |-> SkippedNoQty, arg |-> p])]
    ELSE LET r == SegmentItem(p, npm)
         IN  [acc EXCEPT !.items = <<r.item>> \o @,
                         !.warnings = @ \o r.warn]

\* the quantity and price steps of the loop (lines 123-146)
QuantityStep(acc, p, npm) ==
    IF QtyStart(p) = 0
    THEN [acc EXCEPT !.warnings = Append(@, [msg |-> SkippedNoQty, arg |-> p])]
    ELSE LET r == SegmentItem(p, npm)
         IN  [acc EXCEPT !.items = Append(@, r.item),
                         !.warnings = @ \o r.warn]

\* SegmentStep without the continue of the delivery branch
SegmentStep_DeliveryFallsThrough(acc, raw_part, npm) ==
    LET p == TrimPart(raw_part)
    IN  IF p = <<>> \/ Contains(TotalPriceMark, p) THEN acc
        ELSE IF \E prefix \in delivery_prefixes : StartsWith(p, prefix)
        THEN QuantityStep([acc EXCEPT !.wants_delivery = TRUE], p, npm)
        ELSE QuantityStep(acc, p, npm)

\* SegmentStep that skips a segment without quantity without a warning
SegmentStep_SilentSkip(acc, raw_part, npm) ==
    LET p == TrimPart(raw_part)
    IN  IF p = <<>> \/ Contains(TotalPriceMark, p) THEN acc
        ELSE IF \E prefix \in delivery_prefixes : StartsWith(p, prefix)
        THEN [acc EXCEPT !.wants_delivery = TRUE]
        ELSE IF QtyStart(p) = 0 THEN acc
        ELSE QuantityStep(acc, p, npm)

\* one pass of the loop over parts (lines 113-121, then the quantity step)
SegmentStep(acc, raw_part, npm) ==
    LET p == TrimPart(raw_part)
    IN  IF p = <<>> \/ Contains(TotalPriceMark, p) THEN acc
        ELSE IF \E prefix \in delivery_prefixes : StartsWith(p, prefix)
        THEN [acc EXCEPT !.wants_delivery = TRUE]
        ELSE QuantityStep(acc, p, npm)

RECURSIVE SegmentLoop(_, _, _, _)
SegmentLoop(acc, parts, i, npm) ==
    IF i > Len(parts) THEN acc
    ELSE SegmentLoop(SegmentStep(acc, parts[i], npm), parts, i + 1, npm)

\* parse_order_content(content, price_map): (wants_delivery, items, warnings)
parse_order_content(text, pm) ==
    SegmentLoop([wants_delivery |-> FALSE, items |-> <<>>, warnings |-> <<>>],
                re_split(text), 1, norm_price_map(pm))

-----------------------------------------------------------------------------
(* The sheet as pd.read_excel returns it: the data rows under the column   *)
(* header line, a cell being a str, a number or NaN (an empty cell).       *)
(* Columns are taken to be of object dtype, as they are when a column      *)
(* holds text next to numbers: a whole number is then an int.              *)

Str(s) == [t |-> "str", s |-> s, n |-> 0]
Num(n) == [t |-> "num", s |-> <<>>, n |-> n]
NaN == [t |-> "nan", s |-> <<>>, n |-> 0]

summary_marker == <<"M", "N", "H", "G">>
product_header == <<"M", "N">>
total_marker == <<"G", "T">>
orders_header_marker == <<"R", "O">>

RECURSIVE IntStr(_)
\* str(n) of an int n >= 0
IntStr(n) ==
    IF n < 10 THEN <<Alphabet[Ord("0") + n]>>
    ELSE IntStr(n \div 10) \o <<Alphabet[Ord("0") + (n % 10)]>>

\* the decimals of a float, as repr prints them: "0" or up to three digits
FracStr(m) ==
    IF m = 0 THEN <<"0">>
    ELSE IF m % 100 = 0 THEN IntStr(m \div 100)
    ELSE IF m % 10 = 0
         THEN (IF m < 100 THEN <<"0">> ELSE <<>>) \o IntStr(m \div 10)
    ELSE (IF m < 10 THEN <<"0", "0">> ELSE IF m < 100 THEN <<"0">> ELSE <<>>)
         \o IntStr(m)

\* str(cell), also astype(str): an int prints bare, a float with its decimals
PyStr(cell) ==
    IF cell.t = "str" THEN cell.s
    ELSE IF cell.t = "nan" THEN <<"n", "a", "n">>
    ELSE IF cell.n % 1000 = 0 THEN IntStr(cell.n \div 1000)
    ELSE IntStr(cell.n \div 1000) \o <<".">> \o FracStr(cell.n % 1000)

Cell(sheet, i, col) ==
    CASE col = 0 -> sheet.rows[i].c0
      [] col = 1 -> sheet.rows[i].c1
      [] col = 2 -> sheet.rows[i].c2
      [] col = 3 -> sheet.rows[i].c3

\* df[col0].astype(str).str.strip().eq(marker): the row indices that match
MarkerRows(sheet, marker) ==
    {i \in 1..Len(sheet.rows) : Strip(PyStr(Cell(sheet, i, 0))) = marker}

-----------------------------------------------------------------------------
(* parse_item_catalog *)

\* float(cell) of a cell that is not NaN: ok is FALSE when float() raises
FloatOf(cell) ==
    IF cell.t = "num" THEN [ok |-> TRUE, v |-> cell.n]
    ELSE IF /\ Strip(cell.s) # <<>>
            /\ \A i \in 1..Len(Strip(cell.s)) : Strip(cell.s)[i] \in Digit
         THEN [ok |-> TRUE, v |-> 1000 * int(Strip(cell.s))]
         ELSE [ok |-> FALSE, v |-> 0]

\* float(df.at[i, col]) if col is not None and pd.notna(df.at[i, col]) else None
SummaryCell(sheet, i, col) ==
    IF sheet.ncols > col /\ Cell(sheet, i, col).t # "nan"
    THEN [ok |-> FloatOf(Cell(sheet, i, col)).ok,
          val |-> Some(FloatOf(Cell(sheet, i, col)).v)]
    ELSE [ok |-> TRUE, val |-> None]

\* lines 60-68: is row i a valid item row
IsItemRow(sheet, i) ==
    /\ Cell(sheet, i, 0).t = "str"
    /\ Strip(Cell(sheet, i, 0).s) # <<>>
    /\ Cell(sheet, i, 1).t = "num"

RECURSIVE CatalogLoop(_, _, _)
\* lines 47-68: the scan from row i on; err is set when float() raised
CatalogLoop(sheet, i, rows) ==
    IF i > Len(sheet.rows) THEN [err |-> "", rows |-> rows]
    ELSE LET name == Cell(sheet, i, 0)
             st   == Strip(name.s)
         IN  IF name.t = "str" /\ st = total_marker
             THEN [err |-> "", rows |-> rows]
             ELSE IF name.t = "str"
                     /\ st \in {product_header, summary_marker, total_marker}
             THEN CatalogLoop(sheet, i + 1, rows)
             ELSE IF IsItemRow(sheet, i)
             THEN IF SummaryCell(sheet, i, 2).ok /\ SummaryCell(sheet, i, 3).ok
                  THEN CatalogLoop(sheet, i + 1,
                          Append(rows,
                             [item_name |-> st,
                              unit_price |-> Cell(sheet, i, 1).n,
                              summary_qty |-> SummaryCell(sheet, i, 2).val,
                              summary_amount |-> SummaryCell(sheet, i, 3).val]))
                  ELSE [err |-> "ValueError: could not convert string to float",
                        rows |-> <<>>]
             ELSE CatalogLoop(sheet, i + 1, rows)

\* drop_duplicates that keeps the first row of a name
drop_duplicates_KeepFirst(rows) ==
    SelectSeq([i \in 1..Len(rows) |-> [i |-> i, r |-> rows[i]]],
              LAMBDA e : \A j \in 1..(e.i - 1) :
                            rows[j].item_name # e.r.item_name)

\* drop_duplicates(subset=["item_name"], keep="last")
drop_duplicates(rows) ==
    SelectSeq([i \in 1..Len(rows) |-> [i |-> i, r |-> rows[i]]],
              LAMBDA e : \A j \in (e.i + 1)..Len(rows) :
                            rows[j].item_name # e.r.item_name)

RECURSIVE DictZip(_, _, _)
DictZip(rows, i, acc) ==
    IF i > Len(rows) THEN acc
    ELSE DictZip(rows, i + 1, DictPut(acc, rows[i].item_name, rows[i].unit_price))

\* parse_item_catalog without the check that some item row was parsed
parse_item_catalog_NoEmptyCheck(sheet) ==
    LET bad(e) == [err |-> e, catalog |-> <<>>, price_map |-> <<>>]
        marks  == MarkerRows(sheet, summary_marker)
        scan   == CatalogLoop(sheet, SetMin(marks) + 1, <<>>)
        kept   == [i \in 1..Len(drop_duplicates(scan.rows)) |->
                      drop_duplicates(scan.rows)[i].r]
    IN  IF sheet.ncols < 2
        THEN bad("ValueError: Expected at least 2 columns in the sheet.")
        ELSE IF marks = {}
        THEN bad("ValueError: Could not find summary marker row")
        ELSE IF scan.err # "" THEN bad(scan.err)
        ELSE [err |-> "", catalog |-> kept, price_map |-> DictZip(kept, 1, <<>>)]

\* parse_item_catalog(file): err is the exception raised, "" when it returns
parse_item_catalog(sheet) ==
    LET bad(e) == [err |-> e, catalog |-> <<>>, price_map |-> <<>>]
        marks  == MarkerRows(sheet, summary_marker)
        scan   == CatalogLoop(sheet, SetMin(marks) + 1, <<>>)
        kept   == [i \in 1..Len(drop_duplicates(scan.rows)) |->
                      drop_duplicates(scan.rows)[i].r]
    IN  IF sheet.ncols < 2
        THEN bad("ValueError: Expected at least 2 columns in the sheet.")
        ELSE IF marks = {}
        THEN bad("ValueError: Could not find summary marker row")
        ELSE IF scan.err # "" THEN bad(scan.err)
        ELSE IF scan.rows = <<>>
        THEN bad("ValueError: Found summary marker but did not parse any valid item rows")
        ELSE [err |-> "", catalog |-> kept, price_map |-> DictZip(kept, 1, <<>>)]

-----------------------------------------------------------------------------
(* parse_orders_and_items *)

Pending == [status |-> "pending", error |-> "", orders |-> <<>>, items |-> <<>>,
            checklist |-> <<>>, catalog |-> <<>>, issues |-> <<>>]

\* an exception leaves the function: the caller gets no collection at all
Raised(e) == [Pending EXCEPT !.status = "raised", !.error = e]

NoCall == [status |-> "pending", wants_delivery |-> FALSE, items |-> <<>>,
           warnings |-> <<>>]

\* no handler of the app has run
NoHandler == [op |-> "none", ok |-> TRUE, flag |-> FALSE]

\* the browser sessions that have the app open
Sessions == {1, 2}

\* lines 439-443: st.session_state of a session that has opened no dialog
\* (order_id 0 stands for None)
NoModal == [active_modal |-> "None", active_modal_order_id |-> 0]

\* a session none of whose script runs has started: no dialog function was
\* called, no statement is pending
NoRun == [pc |-> "idle", dialogs |-> <<>>, read |-> <<>>]

\* the sessions before the first script run
UiAtStart ==
    /\ session_state = [s \in Sessions |-> NoModal]
    /\ script_run = [s \in Sessions |-> NoRun]
    /\ browser = [s \in Sessions |-> "none"]

\* round(total, 2) of a total in thousandths (ties to even, as for a float
\* that is exact in binary)
Round2(m) ==
    LET q == m \div 10
        r == m % 10
    IN  IF r < 5 THEN 10 * q
        ELSE IF r > 5 THEN 10 * (q + 1)
        ELSE IF q % 2 = 0 THEN 10 * q ELSE 10 * (q + 1)

RECURSIVE SumPriced(_, _)
\* lines 223-229: total += int(quantity) * float(price) over the priced items
SumPriced(items, i) ==
    IF i > Len(items) THEN 0
    ELSE (IF items[i].price.none THEN 0
          ELSE items[i].quantity * items[i].price.v) + SumPriced(items, i + 1)

\* OrderTotal that counts a missing price as 0
OrderTotal_MissingAsZero(items) == Some(Round2(SumPriced(items, 1)))

\* line 235: None if missing_price else round(total, 2)
OrderTotal(items) ==
    IF \E i \in 1..Len(items) : items[i].price.none THEN None
    ELSE Some(Round2(SumPriced(items, 1)))

\* OrdersRaw that keeps a row whose content cell is missing
OrdersRaw_CustomerOnly(sheet, header_idx, summary_idx) ==
    SelectSeq([i \in 1..Len(sheet.rows) |-> i],
              LAMBDA i : /\ header_idx < i
                         /\ i < summary_idx
                         /\ Cell(sheet, i, 1).t # "nan")

\* lines 203-208: the rows between the header and the summary marker that
\* have a customer and a content, in sheet order
OrdersRaw(sheet, header_idx, summary_idx) ==
    SelectSeq([i \in 1..Len(sheet.rows) |-> i],
              LAMBDA i : /\ header_idx < i
                         /\ i < summary_idx
                         /\ Cell(sheet, i, 1).t # "nan"
                         /\ Cell(sheet, i, 2).t # "nan")

\* content[:150]
ContentSample(c) == SubSeq(c, 1, IF Len(c) < 150 THEN Len(c) ELSE 150)

\* lines 267-285: items_df left-joined with the order columns
Checklist(orders, items) ==
    [i \in 1..Len(items) |->
        LET o == orders[CHOOSE j \in 1..Len(orders) :
                           orders[j].orderId = items[i].orderId]
        IN  [orderId |-> items[i].orderId, customer |-> o.customer,
             wantsDelivery |-> o.wantsDelivery, isPaid |-> o.isPaid,
             isFulfilled |-> o.isFulfilled, totalDollar |-> o.totalDollar,
             itemId |-> items[i].itemId, name |-> items[i].name,
             quantity |-> items[i].quantity, price |-> items[i].price,
             isChecked |-> items[i].isChecked]]

\* OrderIssues without the "No parsed items" issue
OrderIssues_NoEmptyIssue(r, order_id, customer, text) ==
    LET issue(w) == [orderId |-> order_id, customer |-> customer,
                     warning |-> w, content_sample |-> ContentSample(text)]
    IN  [i \in 1..Len(r.warnings) |-> issue(r.warnings[i])]

\* lines 254-260: the issues of one order
OrderIssues(r, order_id, customer, text) ==
    LET issue(w) == [orderId |-> order_id, customer |-> customer,
                     warning |-> w, content_sample |-> ContentSample(text)]
    IN  [i \in 1..Len(r.warnings) |-> issue(r.warnings[i])]
        \o (IF r.items = <<>>
            THEN <<issue([msg |-> NoParsedItems, arg |-> <<>>])>>
            ELSE <<>>)

\* lines 177-181: step 1, the catalog and the price map
ReadCatalog ==
    /\ pc = "catalog"
    /\ LET c == parse_item_catalog(df)
       IN  IF c.err # ""
           THEN /\ pc' = "raised"
                /\ ret' = Raised(c.err)
                /\ UNCHANGED <<catalog_df, price_map>>
           ELSE /\ pc' = "locate"
                /\ catalog_df' = c.catalog
                /\ price_map' = c.price_map
                /\ UNCHANGED ret
    /\ UNCHANGED <<df, orders_raw, orders_out, items_out, issues_out,
                   next_uuid, content, poc>>
    /\ UNCHANGED <<appVars, uiVars>>

\* lines 184-208: step 2, the order rows
LocateOrders ==
    /\ pc = "locate"
    /\ LET headers   == MarkerRows(df, orders_header_marker)
           summaries == MarkerRows(df, summary_marker)
       IN  IF df.ncols < 3
           THEN /\ pc' = "raised"
                /\ ret' = Raised("ValueError: Expected at least 3 columns")
                /\ UNCHANGED orders_raw
           ELSE IF headers = {}
           THEN /\ pc' = "raised"
                /\ ret' = Raised("ValueError: Could not find orders header marker")
                /\ UNCHANGED orders_raw
           ELSE IF summaries = {}
           THEN /\ pc' = "raised"
                /\ ret' = Raised("ValueError: Could not find summary marker")
                /\ UNCHANGED orders_raw
           ELSE /\ pc' = "rows"
                /\ orders_raw' = OrdersRaw(df, SetMin(headers), SetMin(summaries))
                /\ UNCHANGED ret
    /\ UNCHANGED <<df, catalog_df, price_map, orders_out, items_out,
                   issues_out, next_uuid, content, poc>>
    /\ UNCHANGED <<appVars, uiVars>>

\* lines 215-260: one pass of the loop over the order rows
ParseOrderRow ==
    /\ pc = "rows"
    /\ orders_raw # <<>>
    /\ LET row      == Head(orders_raw)
           order_id == next_uuid + 1
           customer == Strip(PyStr(Cell(df, row, 1)))
           text     == PyStr(Cell(df, row, 2))
           r        == parse_order_content(text, price_map)
       IN  /\ content' = text
           /\ poc' = [status |-> "returned", wants_delivery |-> r.wants_delivery,
                      items |-> r.items, warnings |-> r.warnings]
           /\ orders_out' = Append(orders_out,
                  [orderId |-> order_id, customer |-> customer,
                   totalDollar |-> OrderTotal(r.items), isPaid |-> FALSE,
                   wantsDelivery |-> r.wants_delivery, isFulfilled |-> FALSE])
           /\ items_out' = items_out \o
                  [i \in 1..Len(r.items) |->
                      [itemId |-> order_id + i, orderId |-> order_id,
                       name |-> r.items[i].name,
                       quantity |-> r.items[i].quantity,
                       price |-> r.items[i].price, isChecked |-> FALSE]]
           /\ issues_out' = issues_out \o OrderIssues(r, order_id, customer, text)
           /\ next_uuid' = order_id + Len(r.items)
    /\ orders_raw' = Tail(orders_raw)
    /\ UNCHANGED <<pc, df, catalog_df, price_map, ret>>
    /\ UNCHANGED <<appVars, uiVars>>

\* lines 262-287: the frames, the join view and the return.  A frame built
\* from an empty list has no columns, so selecting the order columns or
\* joining on "orderId" raises KeyError when no order or no item was parsed.
BuildFrames ==
    /\ pc = "rows"
    /\ orders_raw = <<>>
    /\ IF orders_out = <<>>
       THEN /\ pc' = "raised"
            /\ ret' = Raised("KeyError: orderId")
       ELSE IF items_out = <<>>
       THEN /\ pc' = "raised"
            /\ ret' = Raised("KeyError: 'orderId'")
       ELSE /\ pc' = "returned"
            /\ ret' = [status |-> "returned", error |-> "",
                       orders |-> orders_out, items |-> items_out,
                       checklist |-> Checklist(orders_out, items_out),
                       catalog |-> catalog_df, issues |-> issues_out]
    /\ UNCHANGED <<df, catalog_df, price_map, orders_raw, orders_out,
                   items_out, issues_out, next_uuid, content, poc>>
    /\ UNCHANGED <<appVars, uiVars>>

RECURSIVE OrderRowsLoop(_, _, _, _)
\* lines 215-260 as a whole: the loop over the order rows, from the
\* accumulated lists acc = [orders, items, issues, uuid]
OrderRowsLoop(sheet, pm, rows, acc) ==
    IF rows = <<>> THEN acc
    ELSE LET row      == Head(rows)
             order_id == acc.uuid + 1
             customer == Strip(PyStr(Cell(sheet, row, 1)))
             text     == PyStr(Cell(sheet, row, 2))
             r        == parse_order_content(text, pm)
         IN  OrderRowsLoop(sheet, pm, Tail(rows),
                [orders |-> Append(acc.orders,
                    [orderId |-> order_id, customer |-> customer,
                     totalDollar |-> OrderTotal(r.items), isPaid |-> FALSE,
                     wantsDelivery |-> r.wants_delivery, isFulfilled |-> FALSE]),
                 items |-> acc.items \o
                    [i \in 1..Len(r.items) |->
                        [itemId |-> order_id + i, orderId |-> order_id,
                         name |-> r.items[i].name,
                         quantity |-> r.items[i].quantity,
                         price |-> r.items[i].price, isChecked |-> FALSE]],
                 issues |-> acc.issues \o OrderIssues(r, order_id, customer, text),
                 uuid |-> order_id + Len(r.items)])

\* parse_orders_and_items(file) as one call, uuid identifiers having been
\* handed out before it: what the caller gets (ret) and the number of
\* identifiers handed out after it (uuid)
parse_orders_and_items(sheet, uuid) ==
    LET c         == parse_item_catalog(sheet)
        headers   == MarkerRows(sheet, orders_header_marker)
        summaries == MarkerRows(sheet, summary_marker)
        out       == OrderRowsLoop(sheet, c.price_map,
                        OrdersRaw(sheet, SetMin(headers), SetMin(summaries)),
                        [orders |-> <<>>, items |-> <<>>, issues |-> <<>>,
                         uuid |-> uuid])
        raise(e)  == [ret |-> Raised(e), uuid |-> uuid]
    IN  IF c.err # "" THEN raise(c.err)
        ELSE IF sheet.ncols < 3
        THEN raise("ValueError: Expected at least 3 columns")
        ELSE IF headers = {}
        THEN raise("ValueError: Could not find orders header marker")
        ELSE IF summaries = {}
        THEN raise("ValueError: Could not find summary marker")
        ELSE IF out.orders = <<>>
        THEN [ret |-> Raised("KeyError: orderId"), uuid |-> out.uuid]
        ELSE IF out.items = <<>>
        THEN [ret |-> Raised("KeyError: 'orderId'"), uuid |-> out.uuid]
        ELSE [ret |-> [status |-> "returned", error |-> "",
                       orders |-> out.orders, items |-> out.items,
                       checklist |-> Checklist(out.orders, out.items),
                       catalog |-> c.catalog, issues |-> out.issues],
              uuid |-> out.uuid]

\* the stepwise run and the call as a whole give the same result
StepwiseAgrees ==
    (pc \in {"returned", "raised"} /\ first_run = Pending) =>
        /\ ret = parse_orders_and_items(df, 0).ret
        /\ next_uuid = parse_orders_and_items(df, 0).uuid

\* parse_orders_and_items restarted on the same sheet as the first run: the
\* first result is kept by the caller, the locals start afresh.  The
\* identifier source is not reset, as uuid4 never hands out a value again.
RunAgain_SameIds ==
    /\ pc \in {"returned", "raised"}
    /\ first_run = Pending
    /\ first_run' = ret
    /\ pc' = "catalog"
    /\ catalog_df' = <<>>
    /\ price_map' = <<>>
    /\ orders_raw' = <<>>
    /\ orders_out' = <<>>
    /\ items_out' = <<>>
    /\ issues_out' = <<>>
    /\ ret' = Pending
    /\ next_uuid' = 0
    /\ UNCHANGED <<df, content, poc, db_orders, db_items, db_catalog, last,
                   uiVars>>

\* a second call parse_orders_and_items(file) on the sheet of the first: the
\* caller keeps the first result, the locals of the function start afresh
\* and uuid4 goes on handing out identifiers it has not handed out before
RunAgain ==
    /\ pc \in {"returned", "raised"}
    /\ first_run = Pending
    /\ first_run' = ret
    /\ pc' = "catalog"
    /\ catalog_df' = <<>>
    /\ price_map' = <<>>
    /\ orders_raw' = <<>>
    /\ orders_out' = <<>>
    /\ items_out' = <<>>
    /\ issues_out' = <<>>
    /\ ret' = Pending
    /\ UNCHANGED <<df, next_uuid, content, poc, db_orders, db_items,
                   db_catalog, last, uiVars>>

\* a direct call parse_item_catalog(file)
CallParseItemCatalog ==
    /\ pc = "catalog_call"
    /\ LET c == parse_item_catalog(df)
       IN  IF c.err # ""
           THEN /\ pc' = "raised"
                /\ ret' = Raised(c.err)
                /\ UNCHANGED <<catalog_df, price_map>>
           ELSE /\ pc' = "catalog_called"
                /\ catalog_df' = c.catalog
                /\ price_map' = c.price_map
                /\ UNCHANGED ret
    /\ UNCHANGED <<df, orders_raw, orders_out, items_out, issues_out,
                   next_uuid, content, poc>>
    /\ UNCHANGED <<appVars, uiVars>>

\* a direct call parse_order_content(content, price_map)
CallParseOrderContent ==
    /\ pc = "call"
    /\ LET r == parse_order_content(content, price_map)
       IN  poc' = [status |-> "returned", wants_delivery |-> r.wants_delivery,
                   items |-> r.items, warnings |-> r.warnings]
    /\ pc' = "called"
    /\ UNCHANGED <<df, catalog_df, price_map, orders_raw, orders_out,
                   items_out, issues_out, next_uuid, ret, content>>
    /\ UNCHANGED <<appVars, uiVars>>

-----------------------------------------------------------------------------
(* Inputs *)

\* segments a content cell is made of
SegPool ==
    {<<"a", " ", "x", "2">>,
     <<"a", "b", " ", "x", "1">>,
     <<"z", "z", " ", "x", "1">>,
     <<"b", " ", "x", "0">>,
     <<"w">>,
     <<"Q", "Z", "P", "S", "u", " ", "x", "1">>,
     <<"Q", "Z", "P", "S", "G", "J", " ", "x", "1">>,
     <<"G", "J", "5">>,
     <<"z", "G", "J", " ", "x", "1">>,
     <<"x", "3">>,
     <<"a", " ", "\t", " ", "b", " ", " ", "x", " ", "1", "2">>,
     <<>>,
     <<"c", " ", "x", "1">>}

\* price maps handed to parse_order_content
PriceMaps ==
    {<<[k |-> <<"a">>, v |-> 1500], [k |-> <<"b">>, v |-> 2000]>>,
     <<[k |-> <<"b">>, v |-> 2000], [k |-> <<"a">>, v |-> 1500]>>,
     <<[k |-> <<"a", " ", " ", "b">>, v |-> 125], [k |-> <<"a", "b", "c">>, v |-> 500], [k |-> <<"b", "c">>, v |-> 300]>>,
     <<>>,
     <<[k |-> <<"a", " ", "b">>, v |-> 300], [k |-> <<"a", " ", " ", "b">>, v |-> 125]>>}

RECURSIVE Join(_, _)
\* the segments written one after the other, separated by "," or by "，"
Join(segs, i) ==
    IF i > Len(segs) THEN <<>>
    ELSE IF i = Len(segs) THEN segs[i]
    ELSE segs[i] \o (IF i % 2 = 1 THEN <<",", " ">> ELSE <<";">>)
         \o Join(segs, i + 1)

Contents ==
    {Join(segs, 1) : segs \in UNION {[1..n -> SegPool] : n \in 0..MaxSegs}}

HeaderRow ==
    [c0 |-> Str(<<"R", "O">>), c1 |-> Str(<<"n">>),
     c2 |-> Str(<<"c">>), c3 |-> NaN]

OrderRowMixed ==
    [c0 |-> Num(1000), c1 |-> Str(<<" ", "u", " ">>),
     c2 |-> Str(<<"a", " ", "x", "2", ";", "z", "z", " ", "x", "1", ",", "w">>), c3 |-> NaN]

OrderRowDelivery ==
    [c0 |-> Num(2000), c1 |-> Str(<<"v">>),
     c2 |-> Str(<<"Q", "Z", "P", "S", "u", " ", "x", "1", ",", " ", "a", " ", "x", "3">>), c3 |-> NaN]

OrderRowNoItems ==
    [c0 |-> Num(3000), c1 |-> Num(7000),
     c2 |-> Str(<<"w">>), c3 |-> NaN]

OrderRowNoCustomer ==
    [c0 |-> Num(4000), c1 |-> NaN,
     c2 |-> Str(<<"a", " ", "x", "1">>), c3 |-> NaN]

SummaryRow ==
    [c0 |-> Str(<<" ", "M", "N", "H", "G", " ">>), c1 |-> NaN,
     c2 |-> NaN, c3 |-> NaN]

ItemRow ==
    [c0 |-> Str(<<" ", "a", " ">>), c1 |-> Num(125),
     c2 |-> Num(5000), c3 |-> Num(625)]

RowPool ==
    {HeaderRow, OrderRowMixed, OrderRowDelivery, OrderRowNoItems,
     OrderRowNoCustomer, SummaryRow, ItemRow}

ColumnCounts == {1, 2, 3, 4}

Sheets ==
    {[ncols |-> c, rows |-> r] :
        c \in ColumnCounts, r \in UNION {[1..n -> RowPool] : n \in 0..MaxRows}}

NoSheet == [ncols |-> 0, rows |-> <<>>]

OrderRowNoContent ==
    [c0 |-> Num(5000), c1 |-> Str(<<"t">>),
     c2 |-> NaN, c3 |-> NaN]

\* sheets for the row selection: rows with a missing customer or a missing
\* content, rows ahead of the header and rows behind the summary marker
SelectionRowPool ==
    {HeaderRow, OrderRowMixed, OrderRowNoCustomer, OrderRowNoContent,
     SummaryRow, ItemRow}

ItemRowRepriced ==
    [c0 |-> Str(<<"a">>), c1 |-> Num(200),
     c2 |-> NaN, c3 |-> NaN]

ItemRowB ==
    [c0 |-> Str(<<"b">>), c1 |-> Num(2000),
     c2 |-> Str(<<" ", "3", " ">>), c3 |-> Num(6000)]

ItemRowNoPrice ==
    [c0 |-> Str(<<"c">>), c1 |-> NaN,
     c2 |-> Num(1000), c3 |-> NaN]

ItemRowTextQty ==
    [c0 |-> Str(<<"b">>), c1 |-> Num(1000),
     c2 |-> Str(<<"w">>), c3 |-> NaN]

ProductHeaderRow ==
    [c0 |-> Str(<<"M", "N">>), c1 |-> Num(3000),
     c2 |-> NaN, c3 |-> NaN]

TotalRow ==
    [c0 |-> Str(<<"G", "T", " ">>), c1 |-> Num(9000),
     c2 |-> NaN, c3 |-> Num(9000)]

\* sheets for parse_item_catalog: item rows that repeat a name, rows without
\* a numeric price, the product header and the total line
CatalogRowPool ==
    {SummaryRow, ItemRow, ItemRowRepriced, ItemRowB, ItemRowNoPrice,
     ItemRowTextQty, ProductHeaderRow, TotalRow}

CatalogSheets ==
    {[ncols |-> c, rows |-> r] :
        c \in {2, 4},
        r \in UNION {[1..n -> CatalogRowPool] : n \in 0..MaxRows}}

\* four-column sheets for the repeated parse
RepeatRowPool ==
    {HeaderRow, OrderRowMixed, OrderRowDelivery, SummaryRow, ItemRow}

RepeatSheets ==
    {[ncols |-> 4, rows |-> r] :
        r \in UNION {[1..n -> RepeatRowPool] : n \in 0..MaxRows}}

SelectionSheets ==
    {[ncols |-> c, rows |-> r] :
        c \in {3, 4},
        r \in UNION {[1..n -> SelectionRowPool] : n \in 0..MaxRows}}


-----------------------------------------------------------------------------
(* The SQLite store (src/db.py).  A table is the set of its rows; a flag   *)
(* column holds 0 or 1; money is in thousandths, a NULL is None.  The       *)
(* address, fee and change columns of orders play no part and are left out. *)

MaxUuid == 5      \* identifiers uuid4 hands out to the handlers of the app
MaxQty == 2       \* the ordered quantity the handlers of the app let an item reach

Flag(b) == IF b THEN 1 ELSE 0

\* some row of the table has the primary key
HasOrder(orders, oid) == \E o \in orders : o.order_id = oid
HasItem(items, iid) == \E it \in items : it.item_id = iid

\* the WHEN clause of trg_orders_delivered_insert_guard and of
\* trg_orders_delivered_update_guard: the statement is aborted
DeliveredGuard(new) == new.wants_delivery = 0 /\ new.is_delivered # 0

\* INSERT INTO orders of the rows of a sequence in one transaction: the
\* primary key and the insert guard; a failure rolls the statement back
InsertOrders(orders, rows) ==
    LET ok == /\ \A i \in 1..Len(rows) :
                    /\ ~HasOrder(orders, rows[i].order_id)
                    /\ ~DeliveredGuard(rows[i])
                    /\ \A j \in 1..Len(rows) :
                          rows[i].order_id = rows[j].order_id => i = j
    IN  [ok |-> ok,
         table |-> IF ok THEN orders \cup {rows[i] : i \in 1..Len(rows)}
                   ELSE orders]

\* INSERT INTO items of the rows of a sequence in one transaction that
\* ignores idx_items_order_name_unique
InsertItems_NoUniqueIndex(items, rows) ==
    LET ok == \A i \in 1..Len(rows) :
                 /\ ~HasItem(items, rows[i].item_id)
                 /\ \A j \in 1..Len(rows) :
                       rows[i].item_id = rows[j].item_id => i = j
    IN  [ok |-> ok,
         table |-> IF ok THEN items \cup {rows[i] : i \in 1..Len(rows)}
                   ELSE items]

\* INSERT INTO items of the rows of a sequence in one transaction: the
\* primary key and idx_items_order_name_unique on (order_id, name)
InsertItems(items, rows) ==
    LET same(a, b) == a.order_id = b.order_id /\ a.name = b.name
        ok == \A i \in 1..Len(rows) :
                 /\ ~HasItem(items, rows[i].item_id)
                 /\ \A it \in items : ~same(it, rows[i])
                 /\ \A j \in 1..Len(rows) :
                       (rows[i].item_id = rows[j].item_id
                          \/ same(rows[i], rows[j])) => i = j
    IN  [ok |-> ok,
         table |-> IF ok THEN items \cup {rows[i] : i \in 1..Len(rows)}
                   ELSE items]

\* UPDATE orders SET is_delivered = v WHERE order_id = oid, without
\* trg_orders_delivered_update_guard
UpdateIsDelivered_NoGuard(orders, oid, v) ==
    [ok |-> TRUE,
     table |-> {IF o.order_id = oid THEN [o EXCEPT !.is_delivered = v] ELSE o :
                   o \in orders}]

\* UPDATE orders SET is_delivered = v WHERE order_id = oid, behind
\* trg_orders_delivered_update_guard
UpdateIsDelivered(orders, oid, v) ==
    LET new(o) == [o EXCEPT !.is_delivered = v]
        ok == \A o \in orders : o.order_id = oid => ~DeliveredGuard(new(o))
    IN  [ok |-> ok,
         table |-> IF ok
                   THEN {IF o.order_id = oid THEN new(o) ELSE o : o \in orders}
                   ELSE orders]

\* UPDATE orders SET wants_delivery = v WHERE order_id = oid, followed by
\* trg_orders_wants_delivery_force_reset
UpdateWantsDelivery(orders, oid, v) ==
    LET new(o) == [o EXCEPT !.wants_delivery = v,
                            !.is_delivered = IF v = 0 THEN 0 ELSE @]
    IN  [ok |-> TRUE,
         table |-> {IF o.order_id = oid THEN new(o) ELSE o : o \in orders}]

\* init_db on an existing store: the UPDATE that normalises delivered flags
NormalizeDelivered(orders) ==
    {IF o.wants_delivery = 0 /\ o.is_delivered # 0
     THEN [o EXCEPT !.is_delivered = 0] ELSE o : o \in orders}

\* wipe_all(): every table is emptied and the deletion is committed
wipe_all(tables) == [orders |-> {}, items |-> {}, catalog |-> {}]

-----------------------------------------------------------------------------
(* The handlers of the app (src/app.py), each a whole script run.  The     *)
(* Paid toggle and the delivery address form write columns that no other   *)
(* handler reads and are left out.                                         *)

\* what a handler records in last: its name, whether it ran to its end, and
\* the choice it was run with (FALSE for a handler that has none)
Handler(op, ok, flag) == [op |-> op, ok |-> ok, flag |-> flag]

ItemsIn(items, oid) == {it \in items : it.order_id = oid}

RECURSIVE SumLines(_)
\* SUM(quantity * COALESCE(price, 0)) over a set of item rows
SumLines(rows) ==
    IF rows = {} THEN 0
    ELSE LET it == CHOOSE x \in rows : TRUE
         IN  it.quantity * (IF it.price.none THEN 0 ELSE it.price.v)
               + SumLines(rows \ {it})

\* recompute_order_total(conn, order_id)
recompute_order_total(orders, items, oid) ==
    {IF o.order_id = oid
     THEN [o EXCEPT !.total_dollar = Some(SumLines(ItemsIn(items, oid)))]
     ELSE o : o \in orders}

\* recompute_order_fulfilled that takes an order without items as fulfilled
recompute_order_fulfilled_EmptyCounts(orders, items, oid) ==
    LET total_items     == Cardinality(ItemsIn(items, oid))
        fulfilled_items == Cardinality({it \in ItemsIn(items, oid) :
                                           it.packed_quantity >= it.quantity})
    IN  {IF o.order_id = oid
         THEN [o EXCEPT !.is_fulfilled = Flag(fulfilled_items = total_items)]
         ELSE o : o \in orders}

\* recompute_order_fulfilled(conn, order_id)
recompute_order_fulfilled(orders, items, oid) ==
    LET total_items     == Cardinality(ItemsIn(items, oid))
        fulfilled_items == Cardinality({it \in ItemsIn(items, oid) :
                                           it.packed_quantity >= it.quantity})
    IN  {IF o.order_id = oid
         THEN [o EXCEPT !.is_fulfilled =
                            Flag(total_items > 0 /\ fulfilled_items = total_items)]
         ELSE o : o \in orders}

\* the two recomputations every item-changing handler ends with
Recompute(orders, items, oid) ==
    recompute_order_fulfilled(recompute_order_total(orders, items, oid),
                              items, oid)

RECURSIVE RecomputeAll(_, _, _)
\* lines 311-314: the loop over the imported order ids
RecomputeAll(orders, items, oids) ==
    IF oids = <<>> THEN orders
    ELSE RecomputeAll(Recompute(orders, items, Head(oids)), items, Tail(oids))

\* upsert_catalog(conn, catalog_df): INSERT ... ON CONFLICT(item_name) DO
\* UPDATE SET unit_price, for the rows of the parsed catalog
upsert_catalog(catalog, rows) ==
    {c \in catalog : \A i \in 1..Len(rows) : rows[i].item_name # c.item_name}
      \cup {[item_name |-> rows[i].item_name, unit_price |-> rows[i].unit_price] :
               i \in 1..Len(rows)}

\* lines 264-290: a parsed order and a parsed item as rows of the tables
OrderRowOf(o) ==
    [order_id |-> o.orderId, customer |-> o.customer,
     total_dollar |-> o.totalDollar, is_paid |-> Flag(o.isPaid),
     wants_delivery |-> Flag(o.wantsDelivery),
     is_fulfilled |-> Flag(o.isFulfilled), is_delivered |-> 0]

ItemRowOf(it) ==
    [item_id |-> it.itemId, order_id |-> it.orderId, name |-> it.name,
     quantity |-> it.quantity, price |-> it.price,
     is_checked |-> Flag(it.isChecked), packed_quantity |-> 0]

OrderRowRepeat ==
    [c0 |-> Num(6000), c1 |-> Str(<<"r">>),
     c2 |-> Str(<<"a", " ", "x", "1", ",", "z", "z", " ", "x", "1", ",",
                  "a", " ", "x", "1">>), c3 |-> NaN]

\* the files the user uploads: a sheet with two orders, a sheet whose order
\* names an item twice, and a sheet without the summary section
SheetTwoOrders ==
    [ncols |-> 4,
     rows |-> <<HeaderRow, OrderRowMixed, OrderRowDelivery, SummaryRow, ItemRow>>]

SheetRepeatedItem ==
    [ncols |-> 4, rows |-> <<HeaderRow, OrderRowRepeat, SummaryRow, ItemRow>>]

SheetNoSummary ==
    [ncols |-> 4, rows |-> <<HeaderRow, OrderRowMixed>>]

ImportSheets == {SheetTwoOrders, SheetRepeatedItem, SheetNoSummary}

\* the values the user types into the dialogs
Customers == {<<"k">>}

parserVars ==
    <<catalog_df, price_map, orders_raw, orders_out, items_out, issues_out,
      content, poc, first_run>>

\* the uploaded sheet and the frames parsed from it are locals of the script
\* run of the Import button: a later run does not have them
ImportLocalsGone == df' = NoSheet /\ ret' = Pending

\* parse_orders_and_items(uploaded) for each file the user may upload and
\* each number of identifiers handed out before the call
ParsedAt ==
    [uploaded \in ImportSheets, uuid \in 0..MaxUuid |->
        parse_orders_and_items(uploaded, uuid)]

\* lines 259-318: the Import Excel button
ImportExcel ==
    /\ pc = "app"
    /\ \E uploaded \in ImportSheets, wipe_before \in BOOLEAN :
       \E p \in {ParsedAt[uploaded, next_uuid]} :
          LET before == [orders |-> db_orders, items |-> db_items,
                         catalog |-> db_catalog]
              t      == IF wipe_before THEN wipe_all(before) ELSE before
              orows  == [j \in 1..Len(p.ret.orders) |-> OrderRowOf(p.ret.orders[j])]
              irows  == [i \in 1..Len(p.ret.items) |-> ItemRowOf(p.ret.items[i])]
              oids   == [j \in 1..Len(orows) |-> orows[j].order_id]
              ins_o  == InsertOrders(t.orders, orows)
              ins_i  == InsertItems(t.items, irows)
              done(ok) == Handler("import", ok, wipe_before)
          IN  /\ p.uuid <= MaxUuid
              /\ df' = uploaded
              /\ ret' = p.ret
              /\ next_uuid' = p.uuid
              /\ IF p.ret.status = "raised"
                 THEN /\ db_catalog' = t.catalog
                      /\ db_orders' = t.orders
                      /\ db_items' = t.items
                      /\ last' = done(FALSE)
                 ELSE /\ db_catalog' = upsert_catalog(t.catalog, p.ret.catalog)
                      /\ IF ~ins_o.ok
                         THEN /\ db_orders' = t.orders
                              /\ db_items' = t.items
                              /\ last' = done(FALSE)
                         ELSE IF ~ins_i.ok
                         THEN /\ db_orders' = ins_o.table
                              /\ db_items' = t.items
                              /\ last' = done(FALSE)
                         ELSE /\ db_orders' =
                                    RecomputeAll(ins_o.table, ins_i.table, oids)
                              /\ db_items' = ins_i.table
                              /\ last' = done(TRUE)
    /\ UNCHANGED <<pc, parserVars, uiVars>>

\* lines 92-135: the Create order button of the New order dialog
CreateOrder ==
    /\ pc = "app"
    /\ next_uuid < MaxUuid
    /\ \E customer \in Customers, wants_delivery \in BOOLEAN :
          LET order_id == next_uuid + 1
              ins == InsertOrders(db_orders,
                        <<[order_id |-> order_id, customer |-> Strip(customer),
                           total_dollar |-> Some(0), is_paid |-> 0,
                           wants_delivery |-> Flag(wants_delivery),
                           is_fulfilled |-> 0, is_delivered |-> 0]>>)
          IN  /\ db_orders' = ins.table
              /\ last' = Handler("new_order", ins.ok, wants_delivery)
    /\ next_uuid' = next_uuid + 1
    /\ ImportLocalsGone
    /\ UNCHANGED <<pc, db_items, db_catalog, parserVars, uiVars>>

\* the unit prices the Add items dialog is left with: the catalog price it
\* proposes, or a price typed over it
TypedPrices == {0}

\* lines 391-429 behind the Add button of the Add items dialog (lines
\* 458-503): add_item_to_order(order_id, selected, qty_to_add, unit_price)
AddItemToOrder ==
    /\ pc = "app"
    /\ \E o \in db_orders, c \in db_catalog, qty_to_add \in 1..MaxQty :
        \E unit_price \in TypedPrices \cup {c.unit_price} :
          LET existing == {it \in db_items : /\ it.order_id = o.order_id
                                             /\ it.name = c.item_name}
              row      == CHOOSE it \in existing : TRUE
              new_qty  == row.quantity + qty_to_add
              updated  == [row EXCEPT
                              !.quantity = new_qty,
                              !.price = Some(unit_price),
                              !.packed_quantity =
                                  SetMin({row.packed_quantity, new_qty})]
              ins      == InsertItems(db_items,
                             <<[item_id |-> next_uuid + 1,
                                order_id |-> o.order_id, name |-> c.item_name,
                                quantity |-> qty_to_add,
                                price |-> Some(unit_price),
                                is_checked |-> 0, packed_quantity |-> 0]>>)
              items    == IF existing # {}
                          THEN (db_items \ {row}) \cup {updated}
                          ELSE ins.table
          IN  /\ IF existing # {}
                 THEN new_qty <= MaxQty /\ UNCHANGED next_uuid
                 ELSE next_uuid < MaxUuid /\ next_uuid' = next_uuid + 1
              /\ db_items' = items
              /\ db_orders' = Recompute(db_orders, items, o.order_id)
              /\ last' = Handler("add_item", existing # {} \/ ins.ok,
                                 existing # {})
    /\ ImportLocalsGone
    /\ UNCHANGED <<pc, db_catalog, parserVars, uiVars>>

\* lines 529-541: the Yes, remove button of the Remove order dialog
RemoveOrder ==
    /\ pc = "app"
    /\ \E o \in db_orders :
          /\ db_items' = db_items \ ItemsIn(db_items, o.order_id)
          /\ db_orders' = db_orders \ {o}
          /\ last' = Handler("remove_order", TRUE, FALSE)
    /\ ImportLocalsGone
    /\ UNCHANGED <<pc, next_uuid, db_catalog, parserVars, uiVars>>

\* set_all_packed(conn, order_id, packed)
set_all_packed(items, oid, packed) ==
    {IF it.order_id = oid
     THEN [it EXCEPT !.packed_quantity = IF packed THEN it.quantity ELSE 0]
     ELSE it : it \in items}

\* lines 656-664: the Mark all packed and the Clear packed button
SetAllPacked ==
    /\ pc = "app"
    /\ \E o \in db_orders, packed \in BOOLEAN :
          LET items == set_all_packed(db_items, o.order_id, packed)
          IN  /\ db_items' = items
              /\ db_orders' = Recompute(db_orders, items, o.order_id)
              /\ last' = Handler("set_all_packed", TRUE, packed)
    /\ ImportLocalsGone
    /\ UNCHANGED <<pc, next_uuid, db_catalog, parserVars, uiVars>>

\* lines 680-696: the Delivered checkbox, shown for a delivery order and
\* enabled once the order is fulfilled
ToggleDelivered ==
    /\ pc = "app"
    /\ \E o \in db_orders :
          LET upd == UpdateIsDelivered(db_orders, o.order_id, 1 - o.is_delivered)
          IN  /\ o.wants_delivery = 1
              /\ o.is_fulfilled = 1
              /\ db_orders' = upd.table
              /\ last' = Handler("delivered", upd.ok, o.is_delivered = 0)
    /\ ImportLocalsGone
    /\ UNCHANGED <<pc, next_uuid, db_items, db_catalog, parserVars, uiVars>>

\* lines 838-844: the Remove button of an item of the packing checklist
RemoveItem ==
    /\ pc = "app"
    /\ \E o \in db_orders :
          \E it \in ItemsIn(db_items, o.order_id) :
             LET items == {x \in db_items : x.item_id # it.item_id}
             IN  /\ db_items' = items
                 /\ db_orders' = Recompute(db_orders, items, o.order_id)
                 /\ last' = Handler("remove_item", TRUE, FALSE)
    /\ ImportLocalsGone
    /\ UNCHANGED <<pc, next_uuid, db_catalog, parserVars, uiVars>>

\* lines 821-828 and 846-852: a new value in the Packed input of an item
ChangePacked ==
    /\ pc = "app"
    /\ \E o \in db_orders :
          \E it \in ItemsIn(db_items, o.order_id) :
             \E new_packed \in 0..it.quantity :
                LET items == {IF x.item_id = it.item_id
                              THEN [x EXCEPT !.packed_quantity = new_packed]
                              ELSE x : x \in db_items}
                IN  /\ new_packed # it.packed_quantity
                    /\ db_items' = items
                    /\ db_orders' = Recompute(db_orders, items, o.order_id)
                    /\ last' = Handler("packed", TRUE, FALSE)
    /\ ImportLocalsGone
    /\ UNCHANGED <<pc, next_uuid, db_catalog, parserVars, uiVars>>

\* lines 830-836 and 854-864: a new value in the Ordered input of an item
ChangeOrdered ==
    /\ pc = "app"
    /\ \E o \in db_orders :
          \E it \in ItemsIn(db_items, o.order_id) :
             \E new_qty \in 1..MaxQty :
                LET clamped_packed == SetMin({it.packed_quantity, new_qty})
                    items == {IF x.item_id = it.item_id
                              THEN [x EXCEPT !.quantity = new_qty,
                                             !.packed_quantity = clamped_packed]
                              ELSE x : x \in db_items}
                IN  /\ new_qty # it.quantity
                    /\ db_items' = items
                    /\ db_orders' = Recompute(db_orders, items, o.order_id)
                    /\ last' = Handler("ordered", TRUE, FALSE)
    /\ ImportLocalsGone
    /\ UNCHANGED <<pc, next_uuid, db_catalog, parserVars, uiVars>>

-----------------------------------------------------------------------------
(* Statements against table orders of a store that init_db() has opened:  *)
(* the store may be older than the triggers and hold any flags before.      *)

MaxDbOrders == 3  \* order ids the statements against table orders draw from

Flags == {0, 1}

\* a row of orders with the given key and delivery flags
PlainOrder(oid, wants_delivery, is_delivered) ==
    [order_id |-> oid, customer |-> <<"k">>, total_dollar |-> Some(0),
     is_paid |-> 0, wants_delivery |-> wants_delivery, is_fulfilled |-> 0,
     is_delivered |-> is_delivered]

\* the tables an older version of the app may have left: any flags, one row
\* per order id
LegacyOrders ==
    {t \in SUBSET {PlainOrder(oid, w, d) :
                      oid \in 1..MaxDbOrders, w \in Flags, d \in Flags} :
        \A a, b \in t : a.order_id = b.order_id => a = b}

\* lines 88-191: init_db() on the store, which normalises the delivered flag
\* of the rows it finds before it creates the triggers
InitDb ==
    /\ pc = "init_db"
    /\ pc' = "sql"
    /\ db_orders' = NormalizeDelivered(db_orders)
    /\ last' = Handler("init_db", TRUE, FALSE)
    /\ UNCHANGED <<df, ret, next_uuid, db_items, db_catalog, parserVars, uiVars>>

\* INSERT INTO orders (...) VALUES (...)
SqlInsertOrder(row) ==
    /\ pc = "sql"
    /\ db_orders' = InsertOrders(db_orders, <<row>>).table
    /\ last' = Handler("insert", InsertOrders(db_orders, <<row>>).ok, FALSE)
    /\ UNCHANGED <<pc, df, ret, next_uuid, db_items, db_catalog, parserVars, uiVars>>

\* UPDATE orders SET is_delivered = v WHERE order_id = oid
SqlUpdateIsDelivered(oid, v) ==
    /\ pc = "sql"
    /\ db_orders' = UpdateIsDelivered(db_orders, oid, v).table
    /\ last' = Handler("update_delivered",
                       UpdateIsDelivered(db_orders, oid, v).ok, FALSE)
    /\ UNCHANGED <<pc, df, ret, next_uuid, db_items, db_catalog, parserVars, uiVars>>

\* UPDATE orders SET wants_delivery = v WHERE order_id = oid
SqlUpdateWantsDelivery(oid, v) ==
    /\ pc = "sql"
    /\ db_orders' = UpdateWantsDelivery(db_orders, oid, v).table
    /\ last' = Handler("update_wants", TRUE, FALSE)
    /\ UNCHANGED <<pc, df, ret, next_uuid, db_items, db_catalog, parserVars, uiVars>>

-----------------------------------------------------------------------------
(* Two browser sessions on one store (src/app.py).  Each session has its   *)
(* own st.session_state and runs the script in a thread of its own; a run  *)
(* is a whole script run or the rerun of one dialog function.  A run that  *)
(* ends in st.rerun() is followed by a whole run of the same session.  The  *)
(* Packed and Ordered inputs are taken in two steps, the SELECT of the     *)
(* checklist and the UPDATE, between which the other session may commit;   *)
(* every other handler is one step.  The Delivered and Paid toggles and    *)
(* the Remove button of an item are left out.                              *)

MaxSessionUuid == 3   \* identifiers uuid4 hands out to the two sessions

\* an order row whose content names one catalog item
OrderRowTwo ==
    [c0 |-> Num(1000), c1 |-> Str(<<"t">>),
     c2 |-> Str(<<"a", " ", "x", "2">>), c3 |-> NaN]

\* the file the sessions upload: one order of one item, and the catalog
SheetOneOrder ==
    [ncols |-> 4, rows |-> <<HeaderRow, OrderRowTwo, SummaryRow, ItemRow>>]

\* parse_orders_and_items(uploaded) of that file for each number of
\* identifiers handed out before the call
ParsedOneOrderAt ==
    [uuid \in 0..MaxUuid |-> parse_orders_and_items(SheetOneOrder, uuid)]

\* lines 555-559: the dialog function the router calls
Router(ss) ==
    IF ss.active_modal = "delete_order" THEN <<"delete_order">>
    ELSE IF ss.active_modal = "add_items" THEN <<"add_items">>
    ELSE <<>>

\* the dialog on screen after a run that called these dialog functions
Shown(dialogs) == IF dialogs = <<>> THEN "none" ELSE dialogs[1]

\* session s is between two runs and its page can be clicked
PageOpen(s) == script_run[s].pc = "idle" /\ browser[s] = "none"

\* session s is between two runs and shows the dialog
DialogOpen(s, dialog) == script_run[s].pc = "idle" /\ browser[s] = dialog

\* a run of session s has called these dialog functions and ends in state
\* pc with the values read
Ran(s, dialogs, to, read) ==
    /\ script_run' = [script_run EXCEPT
                         ![s] = [pc |-> to, dialogs |-> dialogs, read |-> read]]
    /\ browser' = [browser EXCEPT ![s] = Shown(dialogs)]

\* lines 446-449: open_modal(modal_name, order_id), before st.rerun()
open_modal(s, modal_name, order_id) ==
    session_state' = [session_state EXCEPT
                         ![s] = [active_modal |-> modal_name,
                                 active_modal_order_id |-> order_id]]

\* lines 452-455: close_modal(), before st.rerun()
close_modal(s) == session_state' = [session_state EXCEPT ![s] = NoModal]

\* the variables of the single-session model that two sessions leave alone
sessionFrame == <<pc, df, ret, last, parserVars>>

\* a whole script run after st.rerun(): no button is down
Rerun(s) ==
    /\ pc = "sessions"
    /\ script_run[s].pc = "rerun"
    /\ Ran(s, Router(session_state[s]), "idle", <<>>)
    /\ UNCHANGED <<session_state, next_uuid, db_orders, db_items, db_catalog,
                   sessionFrame>>

\* lines 350-352: the New order button, then the router of lines 555-559
ClickNewOrder(s) ==
    /\ pc = "sessions"
    /\ PageOpen(s)
    /\ Ran(s, <<"new_order">> \o Router(session_state[s]), "idle", <<>>)
    /\ UNCHANGED <<session_state, next_uuid, db_orders, db_items, db_catalog,
                   sessionFrame>>

\* lines 643-647: the add and the remove icon of an order of the list; the
\* router has run before the list is drawn
ClickOpenModal(s) ==
    /\ pc = "sessions"
    /\ PageOpen(s)
    /\ \E o \in db_orders, modal_name \in {"add_items", "delete_order"} :
          open_modal(s, modal_name, o.order_id)
    /\ Ran(s, Router(session_state[s]), "rerun", <<>>)
    /\ UNCHANGED <<next_uuid, db_orders, db_items, db_catalog, sessionFrame>>

\* the user dismisses the dialog (the X, Esc, a click outside): Streamlit
\* closes it in the browser and runs nothing
Dismiss(s) ==
    /\ pc = "sessions"
    /\ script_run[s].pc = "idle"
    /\ browser[s] # "none"
    /\ browser' = [browser EXCEPT ![s] = "none"]
    /\ UNCHANGED <<session_state, script_run, next_uuid, db_orders, db_items,
                   db_catalog, sessionFrame>>

\* lines 102-132: the Create order button of the New order dialog
SessionCreateOrder(s) ==
    /\ pc = "sessions"
    /\ DialogOpen(s, "new_order")
    /\ next_uuid < MaxSessionUuid
    /\ \E customer \in Customers, wants_delivery \in BOOLEAN :
          db_orders' = InsertOrders(db_orders,
                          <<[order_id |-> next_uuid + 1,
                             customer |-> Strip(customer),
                             total_dollar |-> Some(0), is_paid |-> 0,
                             wants_delivery |-> Flag(wants_delivery),
                             is_fulfilled |-> 0, is_delivered |-> 0]>>).table
    /\ next_uuid' = next_uuid + 1
    /\ Ran(s, <<"new_order">>, "rerun", <<>>)
    /\ UNCHANGED <<session_state, db_items, db_catalog, sessionFrame>>

\* the Cancel button of a dialog (lines 134-135, 502-503, 551-552) and the
\* Close button of lines 466-467 and 521-522
CancelDialog(s) ==
    /\ pc = "sessions"
    /\ script_run[s].pc = "idle"
    /\ browser[s] # "none"
    /\ IF browser[s] = "new_order"
       THEN UNCHANGED session_state
       ELSE close_modal(s)
    /\ Ran(s, <<browser[s]>>, "rerun", <<>>)
    /\ UNCHANGED <<next_uuid, db_orders, db_items, db_catalog, sessionFrame>>

\* lines 259-318 as a function of the store: the tables after the Import
\* button, given the tables t left by the wipe and the parse p of the file
import_excel(t, p) ==
    LET orows == [j \in 1..Len(p.ret.orders) |-> OrderRowOf(p.ret.orders[j])]
        irows == [i \in 1..Len(p.ret.items) |-> ItemRowOf(p.ret.items[i])]
        oids  == [j \in 1..Len(orows) |-> orows[j].order_id]
        ins_o == InsertOrders(t.orders, orows)
        ins_i == InsertItems(t.items, irows)
        upserted == upsert_catalog(t.catalog, p.ret.catalog)
    IN  IF p.ret.status = "raised" THEN t
        ELSE IF ~ins_o.ok
        THEN [orders |-> t.orders, items |-> t.items, catalog |-> upserted]
        ELSE IF ~ins_i.ok
        THEN [orders |-> ins_o.table, items |-> t.items, catalog |-> upserted]
        ELSE [orders |-> RecomputeAll(ins_o.table, ins_i.table, oids),
              items |-> ins_i.table, catalog |-> upserted]

\* lines 259-318: the Import Excel button of the sidebar, then the rest of
\* the script with the router
SessionImport(s) ==
    /\ pc = "sessions"
    /\ PageOpen(s)
    /\ \E wipe_before \in BOOLEAN :
       \E p \in {ParsedOneOrderAt[next_uuid]} :
          LET before == [orders |-> db_orders, items |-> db_items,
                         catalog |-> db_catalog]
              t      == IF wipe_before THEN wipe_all(before) ELSE before
              after  == import_excel(t, p)
          IN  /\ p.uuid <= MaxSessionUuid
              /\ next_uuid' = p.uuid
              /\ db_orders' = after.orders
              /\ db_items' = after.items
              /\ db_catalog' = after.catalog
    /\ Ran(s, Router(session_state[s]), "idle", <<>>)
    /\ UNCHANGED <<session_state, sessionFrame>>

\* add_item_to_order(order_id, item_name, qty_to_add, unit_price) as a
\* function of table items; item_id is what uuid4 hands out
add_item_to_order(items, order_id, item_name, qty_to_add, unit_price, item_id) ==
    LET existing == {it \in items : it.order_id = order_id /\ it.name = item_name}
        row      == CHOOSE it \in existing : TRUE
        new_qty  == row.quantity + qty_to_add
    IN  IF existing # {}
        THEN (items \ {row}) \cup
                {[row EXCEPT !.quantity = new_qty,
                             !.price = Some(unit_price),
                             !.packed_quantity =
                                 SetMin({row.packed_quantity, new_qty})]}
        ELSE InsertItems(items,
                <<[item_id |-> item_id, order_id |-> order_id,
                   name |-> item_name, quantity |-> qty_to_add,
                   price |-> Some(unit_price), is_checked |-> 0,
                   packed_quantity |-> 0]>>).table

\* lines 458-501: the Add button of the Add items dialog, for the order of
\* st.session_state["active_modal_order_id"]
AddItems(s) ==
    /\ pc = "sessions"
    /\ DialogOpen(s, "add_items")
    /\ \E c \in db_catalog, qty_to_add \in 1..MaxQty :
          LET order_id == session_state[s].active_modal_order_id
              existing == \E it \in db_items :
                             it.order_id = order_id /\ it.name = c.item_name
              items    == add_item_to_order(db_items, order_id, c.item_name,
                              qty_to_add, c.unit_price, next_uuid + 1)
          IN  /\ IF existing
                 THEN /\ \A it \in db_items :
                            (it.order_id = order_id /\ it.name = c.item_name)
                                => it.quantity + qty_to_add <= MaxQty
                      /\ UNCHANGED next_uuid
                 ELSE next_uuid < MaxSessionUuid /\ next_uuid' = next_uuid + 1
              /\ db_items' = items
              /\ db_orders' = Recompute(db_orders, items, order_id)
    /\ close_modal(s)
    /\ Ran(s, <<"add_items">>, "rerun", <<>>)
    /\ UNCHANGED <<db_catalog, sessionFrame>>

\* lines 505-549: the Yes, remove button of the Remove order dialog, which
\* the dialog offers when its SELECT finds the order
ConfirmRemove(s) ==
    /\ pc = "sessions"
    /\ DialogOpen(s, "delete_order")
    /\ LET order_id == session_state[s].active_modal_order_id
       IN  /\ HasOrder(db_orders, order_id)
           /\ db_items' = db_items \ ItemsIn(db_items, order_id)
           /\ db_orders' = {o \in db_orders : o.order_id # order_id}
    /\ close_modal(s)
    /\ Ran(s, <<"delete_order">>, "rerun", <<>>)
    /\ UNCHANGED <<next_uuid, db_catalog, sessionFrame>>

\* lines 656-664: the Mark all packed and the Clear packed button
SessionSetAllPacked(s) ==
    /\ pc = "sessions"
    /\ PageOpen(s)
    /\ \E o \in db_orders, packed \in BOOLEAN :
          LET items == set_all_packed(db_items, o.order_id, packed)
          IN  /\ db_items' = items
              /\ db_orders' = Recompute(db_orders, items, o.order_id)
    /\ Ran(s, Router(session_state[s]), "rerun", <<>>)
    /\ UNCHANGED <<session_state, next_uuid, db_catalog, sessionFrame>>

\* lines 797-836: a run after a new value in the Packed or the Ordered input
\* of an item: the SELECT of the checklist and the two inputs, whose bounds
\* are those the page had when the user typed
ReadChecklist(s) ==
    /\ pc = "sessions"
    /\ PageOpen(s)
    /\ \E o \in db_orders :
       \E it \in ItemsIn(db_items, o.order_id) :
       \E handler \in {"packed", "ordered"} :
       \E value \in 0..MaxQty :
          /\ IF handler = "packed"
             THEN value <= it.quantity /\ value # it.packed_quantity
             ELSE value >= 1 /\ value # it.quantity
          /\ Ran(s, Router(session_state[s]), "update",
                 [handler |-> handler, item_id |-> it.item_id,
                  order_id |-> o.order_id, qty |-> it.quantity,
                  packed_qty |-> it.packed_quantity, value |-> value])
    /\ UNCHANGED <<session_state, next_uuid, db_orders, db_items, db_catalog,
                   sessionFrame>>

\* lines 846-852: the UPDATE of the run with new_packed, and the recomputes
UpdatePacked(s) ==
    /\ pc = "sessions"
    /\ script_run[s].pc = "update"
    /\ script_run[s].read.handler = "packed"
    /\ LET r     == script_run[s].read
           items == {IF x.item_id = r.item_id
                     THEN [x EXCEPT !.packed_quantity = r.value]
                     ELSE x : x \in db_items}
       IN  /\ db_items' = items
           /\ db_orders' = Recompute(db_orders, items, r.order_id)
    /\ Ran(s, script_run[s].dialogs, "rerun", <<>>)
    /\ UNCHANGED <<session_state, next_uuid, db_catalog, sessionFrame>>

\* lines 854-864: the UPDATE of the run with new_qty and the packed
\* quantity clamped from the value the run read, and the recomputes
UpdateOrdered(s) ==
    /\ pc = "sessions"
    /\ script_run[s].pc = "update"
    /\ script_run[s].read.handler = "ordered"
    /\ LET r     == script_run[s].read
           clamped_packed == SetMin({r.packed_qty, r.value})
           items == {IF x.item_id = r.item_id
                     THEN [x EXCEPT !.quantity = r.value,
                                    !.packed_quantity = clamped_packed]
                     ELSE x : x \in db_items}
       IN  /\ db_items' = items
           /\ db_orders' = Recompute(db_orders, items, r.order_id)
    /\ Ran(s, script_run[s].dialogs, "rerun", <<>>)
    /\ UNCHANGED <<session_state, next_uuid, db_catalog, sessionFrame>>

-----------------------------------------------------------------------------
(* Specifications *)

\* a run of parse_orders_and_items on a sheet
Init ==
    /\ pc = "catalog"
    /\ df \in Sheets
    /\ catalog_df = <<>>
    /\ price_map = <<>>
    /\ orders_raw = <<>>
    /\ orders_out = <<>>
    /\ items_out = <<>>
    /\ issues_out = <<>>
    /\ next_uuid = 0
    /\ ret = Pending
    /\ content = <<>>
    /\ poc = NoCall
    /\ first_run = Pending
    /\ db_orders = {}
    /\ db_items = {}
    /\ db_catalog = {}
    /\ last = NoHandler
    /\ UiAtStart

Next == ReadCatalog \/ LocateOrders \/ ParseOrderRow \/ BuildFrames

Spec == Init /\ [][Next]_vars

\* a call of parse_order_content on a content cell and a price map
InitContent ==
    /\ pc = "call"
    /\ content \in Contents
    /\ price_map \in PriceMaps
    /\ df = NoSheet
    /\ catalog_df = <<>>
    /\ orders_raw = <<>>
    /\ orders_out = <<>>
    /\ items_out = <<>>
    /\ issues_out = <<>>
    /\ next_uuid = 0
    /\ ret = Pending
    /\ poc = NoCall
    /\ first_run = Pending
    /\ db_orders = {}
    /\ db_items = {}
    /\ db_catalog = {}
    /\ last = NoHandler
    /\ UiAtStart

NextContent == CallParseOrderContent

SpecContent == InitContent /\ [][NextContent]_vars

\* a run of parse_orders_and_items on a sheet of SelectionSheets
InitSelection ==
    /\ pc = "catalog"
    /\ df \in SelectionSheets
    /\ catalog_df = <<>>
    /\ price_map = <<>>
    /\ orders_raw = <<>>
    /\ orders_out = <<>>
    /\ items_out = <<>>
    /\ issues_out = <<>>
    /\ next_uuid = 0
    /\ ret = Pending
    /\ content = <<>>
    /\ poc = NoCall
    /\ first_run = Pending
    /\ db_orders = {}
    /\ db_items = {}
    /\ db_catalog = {}
    /\ last = NoHandler
    /\ UiAtStart

SpecSelection == InitSelection /\ [][Next]_vars

\* a call of parse_item_catalog on a sheet of CatalogSheets
InitCatalog ==
    /\ pc = "catalog_call"
    /\ df \in CatalogSheets
    /\ catalog_df = <<>>
    /\ price_map = <<>>
    /\ orders_raw = <<>>
    /\ orders_out = <<>>
    /\ items_out = <<>>
    /\ issues_out = <<>>
    /\ next_uuid = 0
    /\ ret = Pending
    /\ content = <<>>
    /\ poc = NoCall
    /\ first_run = Pending
    /\ db_orders = {}
    /\ db_items = {}
    /\ db_catalog = {}
    /\ last = NoHandler
    /\ UiAtStart

NextCatalog == CallParseItemCatalog

SpecCatalog == InitCatalog /\ [][NextCatalog]_vars

\* two runs of parse_orders_and_items, one after the other, on one sheet
InitRepeat ==
    /\ pc = "catalog"
    /\ df \in RepeatSheets
    /\ catalog_df = <<>>
    /\ price_map = <<>>
    /\ orders_raw = <<>>
    /\ orders_out = <<>>
    /\ items_out = <<>>
    /\ issues_out = <<>>
    /\ next_uuid = 0
    /\ ret = Pending
    /\ content = <<>>
    /\ poc = NoCall
    /\ first_run = Pending
    /\ db_orders = {}
    /\ db_items = {}
    /\ db_catalog = {}
    /\ last = NoHandler
    /\ UiAtStart

NextRepeat ==
    ReadCatalog \/ LocateOrders \/ ParseOrderRow \/ BuildFrames \/ RunAgain

SpecRepeat == InitRepeat /\ [][NextRepeat]_vars

\* the app on a new store: init_db() has created the empty tables, the
\* index and the triggers, and the user presses buttons
InitApp ==
    /\ pc = "app"
    /\ df = NoSheet
    /\ catalog_df = <<>>
    /\ price_map = <<>>
    /\ orders_raw = <<>>
    /\ orders_out = <<>>
    /\ items_out = <<>>
    /\ issues_out = <<>>
    /\ next_uuid = 0
    /\ ret = Pending
    /\ content = <<>>
    /\ poc = NoCall
    /\ first_run = Pending
    /\ db_orders = {}
    /\ db_items = {}
    /\ db_catalog = {}
    /\ last = NoHandler
    /\ UiAtStart

NextApp ==
    \/ ImportExcel
    \/ CreateOrder
    \/ AddItemToOrder
    \/ RemoveOrder
    \/ SetAllPacked
    \/ ToggleDelivered
    \/ RemoveItem
    \/ ChangePacked
    \/ ChangeOrdered

SpecApp == InitApp /\ [][NextApp]_vars

\* init_db() on a store that exists, then statements against table orders
InitStore ==
    /\ pc = "init_db"
    /\ df = NoSheet
    /\ catalog_df = <<>>
    /\ price_map = <<>>
    /\ orders_raw = <<>>
    /\ orders_out = <<>>
    /\ items_out = <<>>
    /\ issues_out = <<>>
    /\ next_uuid = 0
    /\ ret = Pending
    /\ content = <<>>
    /\ poc = NoCall
    /\ first_run = Pending
    /\ db_orders \in LegacyOrders
    /\ db_items = {}
    /\ db_catalog = {}
    /\ last = NoHandler
    /\ UiAtStart

NextStore ==
    \/ InitDb
    \/ \E oid \in 1..MaxDbOrders, w \in Flags, d \in Flags :
          SqlInsertOrder(PlainOrder(oid, w, d))
    \/ \E oid \in 1..MaxDbOrders, v \in Flags : SqlUpdateIsDelivered(oid, v)
    \/ \E oid \in 1..MaxDbOrders, v \in Flags : SqlUpdateWantsDelivery(oid, v)

SpecStore == InitStore /\ [][NextStore]_vars
\* two sessions open the app on an empty store
InitSessions ==
    /\ pc = "sessions"
    /\ df = NoSheet
    /\ catalog_df = <<>>
    /\ price_map = <<>>
    /\ orders_raw = <<>>
    /\ orders_out = <<>>
    /\ items_out = <<>>
    /\ issues_out = <<>>
    /\ next_uuid = 0
    /\ ret = Pending
    /\ content = <<>>
    /\ poc = NoCall
    /\ first_run = Pending
    /\ db_orders = {}
    /\ db_items = {}
    /\ db_catalog = {}
    /\ last = NoHandler
    /\ UiAtStart

NextSessions ==
    \E s \in Sessions :
        \/ Rerun(s)
        \/ ClickNewOrder(s)
        \/ ClickOpenModal(s)
        \/ Dismiss(s)
        \/ SessionCreateOrder(s)
        \/ CancelDialog(s)
        \/ SessionImport(s)
        \/ AddItems(s)
        \/ ConfirmRemove(s)
        \/ SessionSetAllPacked(s)
        \/ ReadChecklist(s)
        \/ UpdatePacked(s)
        \/ UpdateOrdered(s)

SpecSessions == InitSessions /\ [][NextSessions]_vars







-----------------------------------------------------------------------------
(* Vocabulary of the properties *)

\* the segments of a content cell, trimmed, in source order
Segments(text) ==
    [i \in 1..Len(re_split(text)) |-> TrimPart(re_split(text)[i])]

HasTotalPrice(p) == Contains(TotalPriceMark, p)
HasDeliveryPrefix(p) == \E prefix \in delivery_prefixes : StartsWith(p, prefix)
HasQuantity(p) == QtyStart(p) # 0

\* the name written before the trailing quantity of segment p
SegmentName(p) == normalize_name(SubSeq(p, 1, QtyStart(p) - 1))

\* the segments that reach the quantity and price steps
IsItemSegment(p) ==
    p # <<>> /\ ~HasTotalPrice(p) /\ ~HasDeliveryPrefix(p) /\ HasQuantity(p)

ItemSegments(text) == SelectSeq(Segments(text), IsItemSegment)

\* the catalog keys, whitespace-normalised, and those that match a name
CatalogKeys(pm) ==
    {norm_price_map(pm)[i].k : i \in 1..Len(norm_price_map(pm))}

MatchingKeys(n, pm) ==
    {k \in CatalogKeys(pm) : Contains(k, n) \/ Contains(n, k)}

LongestKeys(n, pm) ==
    {k \in MatchingKeys(n, pm) : \A o \in MatchingKeys(n, pm) : Len(o) <= Len(k)}

KeyPrice(k, pm) == Some(DictValue(norm_price_map(pm), k))

\* the number of elements of a sequence that satisfy a test
Count(seq, Test(_)) == Len(SelectSeq(seq, Test))

ItemsOfOrder(items, oid) == SelectSeq(items, LAMBDA it : it.orderId = oid)
IssuesOfOrder(issues, oid) == SelectSeq(issues, LAMBDA is : is.orderId = oid)

RECURSIVE LineSum(_)
LineSum(items) ==
    IF items = <<>> THEN 0
    ELSE Head(items).quantity * Head(items).price.v + LineSum(Tail(items))

-----------------------------------------------------------------------------
(* C1 *)

\* C1: every order emitted by parse_orders_and_items has total None exactly
\* when one of its items has price None; otherwise its total is the sum of
\* quantity x price over its items rounded to 2 decimals, 0 without items.
C1_TotalMatchesItems ==
    ret.status = "returned" =>
        \A j \in 1..Len(ret.orders) :
            LET o   == ret.orders[j]
                its == ItemsOfOrder(ret.items, o.orderId)
            IN  /\ o.totalDollar.none <=>
                       \E i \in 1..Len(its) : its[i].price.none
                /\ ~o.totalDollar.none =>
                       o.totalDollar.v = Round2(LineSum(its))
                /\ its = <<>> => o.totalDollar = Some(0)

\* a returned import holding an order without total next to an order whose
\* total had to be rounded
C1_Witness ==
    /\ ret.status = "returned"
    /\ \E j \in 1..Len(ret.orders) : ret.orders[j].totalDollar.none
    /\ \E j \in 1..Len(ret.orders) :
          LET its == ItemsOfOrder(ret.items, ret.orders[j].orderId)
          IN  /\ ~ret.orders[j].totalDollar.none
              /\ its # <<>>
              /\ ret.orders[j].totalDollar.v # LineSum(its)

-----------------------------------------------------------------------------
(* C2, C3 *)

\* C2: price resolution.  A name that is a (normalised) catalog key keeps its
\* name and gets that key's price; otherwise, when some key contains the name
\* or is contained in it, the item is renamed to a matching key of greatest
\* length and gets its price; the price is None only when no key matches.
C2_PriceResolution ==
    pc = "called" =>
        /\ Len(poc.items) = Len(ItemSegments(content))
        /\ \A i \in 1..Len(ItemSegments(content)) :
              LET n  == SegmentName(ItemSegments(content)[i])
                  it == poc.items[i]
              IN  /\ n \in CatalogKeys(price_map) =>
                         it.name = n /\ it.price = KeyPrice(n, price_map)
                  /\ (n \notin CatalogKeys(price_map)
                        /\ MatchingKeys(n, price_map) # {}) =>
                         /\ it.name \in LongestKeys(n, price_map)
                         /\ it.price = KeyPrice(it.name, price_map)
                  /\ it.price.none =>
                         (n \notin CatalogKeys(price_map)
                            /\ MatchingKeys(n, price_map) = {})

\* a name resolved by substring among matching keys of different lengths
C2_Witness ==
    /\ pc = "called"
    /\ \E i \in 1..Len(ItemSegments(content)) :
          LET n == SegmentName(ItemSegments(content)[i])
          IN  /\ n \notin CatalogKeys(price_map)
              /\ LongestKeys(n, price_map) # MatchingKeys(n, price_map)
              /\ poc.items[i].name # n
              /\ ~poc.items[i].price.none

\* the first key, in the iteration order of the normalised map, among ks
FirstInOrder(ks, pm) ==
    LET d == norm_price_map(pm)
    IN  d[SetMin({i \in 1..Len(d) : d[i].k \in ks})].k

\* C3 as stated: among matching keys of the same greatest length the one the
\* iteration over the catalog yields first is chosen.
C3_TieFirstInOrder ==
    pc = "called" =>
        \A i \in 1..Len(ItemSegments(content)) :
            LET n == SegmentName(ItemSegments(content)[i])
            IN  (n \notin CatalogKeys(price_map)
                   /\ MatchingKeys(n, price_map) # {}) =>
                    poc.items[i].name =
                        FirstInOrder(LongestKeys(n, price_map), price_map)

\* C3 (amended): among matching keys of the same greatest length the key
\* that is greatest in string order is chosen, whatever the insertion order
\* of the catalog.
C3_TieGreatestString ==
    pc = "called" =>
        \A i \in 1..Len(ItemSegments(content)) :
            LET n == SegmentName(ItemSegments(content)[i])
            IN  (n \notin CatalogKeys(price_map)
                   /\ MatchingKeys(n, price_map) # {}) =>
                    /\ poc.items[i].name \in LongestKeys(n, price_map)
                    /\ \A k \in LongestKeys(n, price_map) :
                          k = poc.items[i].name \/ StrLess(k, poc.items[i].name)

\* a tie between two longest keys, won by the key the iteration yields last
C3_Witness ==
    /\ pc = "called"
    /\ \E i \in 1..Len(ItemSegments(content)) :
          LET n == SegmentName(ItemSegments(content)[i])
          IN  /\ n \notin CatalogKeys(price_map)
              /\ Cardinality(LongestKeys(n, price_map)) >= 2
              /\ poc.items[i].name #
                     FirstInOrder(LongestKeys(n, price_map), price_map)

-----------------------------------------------------------------------------
(* C4 *)

\* C4: every item emitted by the parser has a quantity that is a positive
\* integer, equal to the digits matched after the trailing "x".
C4_QuantityPositive ==
    pc = "called" =>
        /\ Len(poc.items) = Len(ItemSegments(content))
        /\ \A i \in 1..Len(poc.items) :
              /\ poc.items[i].quantity >= 1
              /\ poc.items[i].quantity = int(QtyDigits(ItemSegments(content)[i]))

-----------------------------------------------------------------------------
(* C5, C6 *)

HasHeaderMarker(sheet) ==
    \E i \in 1..Len(sheet.rows) :
        Strip(PyStr(sheet.rows[i].c0)) = orders_header_marker

HasSummaryMarker(sheet) ==
    \E i \in 1..Len(sheet.rows) :
        Strip(PyStr(sheet.rows[i].c0)) = summary_marker

FirstHeader(sheet) ==
    SetMin({i \in 1..Len(sheet.rows) :
               Strip(PyStr(sheet.rows[i].c0)) = orders_header_marker})

FirstSummary(sheet) ==
    SetMin({i \in 1..Len(sheet.rows) :
               Strip(PyStr(sheet.rows[i].c0)) = summary_marker})

\* the rows after the summary marker and before the total marker that name
\* an item (a non-empty string that is no header) and carry a numeric price
ValidCatalogRows(sheet) ==
    {i \in (FirstSummary(sheet) + 1)..Len(sheet.rows) :
        /\ \A j \in (FirstSummary(sheet) + 1)..i :
              ~(sheet.rows[j].c0.t = "str"
                  /\ Strip(sheet.rows[j].c0.s) = total_marker)
        /\ sheet.rows[i].c0.t = "str"
        /\ Strip(sheet.rows[i].c0.s) \notin {<<>>, product_header, summary_marker}
        /\ sheet.rows[i].c1.t = "num"}

\* the rows between the header and the summary marker with a customer and a
\* content
QualifyingRows(sheet) ==
    {i \in 1..Len(sheet.rows) :
        /\ FirstHeader(sheet) < i
        /\ i < FirstSummary(sheet)
        /\ sheet.rows[i].c1.t # "nan"
        /\ sheet.rows[i].c2.t # "nan"}

StructurallyValid(sheet) ==
    /\ sheet.ncols >= 3
    /\ HasHeaderMarker(sheet)
    /\ HasSummaryMarker(sheet)
    /\ ValidCatalogRows(sheet) # {}

\* C5: on a sheet with both markers and a non-empty catalog the parse emits
\* exactly one order per qualifying order row, whatever problems the rows
\* have (stated for the sheets that have at least one such row).
C5_OneOrderPerRow ==
    (/\ pc \in {"returned", "raised"}
     /\ StructurallyValid(df)
     /\ QualifyingRows(df) # {}) =>
        /\ ret.status = "returned"
        /\ Len(ret.orders) = Cardinality(QualifyingRows(df))

\* C6: when a structural condition fails (fewer than 3 columns, no summary
\* marker, no orders header marker, or no valid catalog row after the
\* summary marker) the parse never reaches the order rows, ends by raising,
\* and hands back none of the orders, items, catalog and issues.
C6_StructuralFailureRaises ==
    ~StructurallyValid(df) =>
        /\ pc \in {"catalog", "locate", "raised"}
        /\ pc = "locate" => (df.ncols = 2 \/ ~HasHeaderMarker(df))
        /\ pc = "raised" => ret.status = "raised"
        /\ ret.orders = <<>> /\ ret.items = <<>>
        /\ ret.catalog = <<>> /\ ret.issues = <<>>

\* a sheet with both markers, three columns and order rows, but no valid
\* catalog row, has raised
C6_Witness ==
    /\ pc = "raised"
    /\ df.ncols >= 3
    /\ HasHeaderMarker(df)
    /\ HasSummaryMarker(df)
    /\ ValidCatalogRows(df) = {}
    /\ QualifyingRows(df) # {}

-----------------------------------------------------------------------------
(* C7, C8, C9 *)

RECURSIVE Rejoin(_)
Rejoin(segs) ==
    IF segs = <<>> THEN <<>>
    ELSE IF Len(segs) = 1 THEN segs[1]
    ELSE segs[1] \o <<",">> \o Rejoin(Tail(segs))

\* the content cell without the segments that satisfy Drop
Without(text, Drop(_)) ==
    Rejoin(SelectSeq(Segments(text), LAMBDA p : ~Drop(p)))

WarningArgs(warnings, msg) ==
    LET ws == SelectSeq(warnings, LAMBDA w : w.msg = msg)
    IN  [i \in 1..Len(ws) |-> ws[i].arg]

\* C7 as stated: a segment that starts with a delivery prefix, wherever it
\* stands, sets wants_delivery and adds no item and no warning; without such
\* a segment wants_delivery is false.
C7_DeliveryPrefixSetsFlag ==
    pc = "called" =>
        /\ poc.wants_delivery <=>
               \E i \in 1..Len(Segments(content)) :
                   HasDeliveryPrefix(Segments(content)[i])
        /\ LET rest == parse_order_content(Without(content, HasDeliveryPrefix),
                                           price_map)
           IN  poc.items = rest.items /\ poc.warnings = rest.warnings

IsDeliverySegment(p) == HasDeliveryPrefix(p) /\ ~HasTotalPrice(p)

\* C7 (amended): a segment that starts with a delivery prefix and does not
\* contain the total-price mark, wherever it stands, sets wants_delivery and
\* adds no item and no warning; without such a segment wants_delivery is
\* false.
C7_DeliverySegmentSetsFlag ==
    pc = "called" =>
        /\ poc.wants_delivery <=>
               \E i \in 1..Len(Segments(content)) :
                   IsDeliverySegment(Segments(content)[i])
        /\ LET rest == parse_order_content(Without(content, IsDeliverySegment),
                                           price_map)
           IN  poc.items = rest.items /\ poc.warnings = rest.warnings

\* a delivery segment that is not the first segment, after an item
C7_Witness ==
    /\ pc = "called"
    /\ poc.wants_delivery
    /\ poc.items # <<>>
    /\ Len(Segments(content)) >= 2
    /\ ~IsDeliverySegment(Segments(content)[1])
    /\ IsDeliverySegment(Segments(content)[2])

LacksQuantity(p) == p # <<>> /\ ~HasDeliveryPrefix(p) /\ ~HasQuantity(p)

\* C8 as stated: every non-empty, non-delivery segment without a trailing
\* quantity yields one "Skipped segment" warning and no item, and the other
\* segments are processed as if it were absent.
C8_NoQuantityWarns ==
    pc = "called" =>
        /\ WarningArgs(poc.warnings, SkippedNoQty) =
               SelectSeq(Segments(content), LacksQuantity)
        /\ poc.items =
               parse_order_content(Without(content, LacksQuantity), price_map).items

IsSkippedSegment(p) == LacksQuantity(p) /\ ~HasTotalPrice(p)

\* C8 (amended): every non-empty, non-delivery segment without a trailing
\* quantity that does not contain the total-price mark yields one "Skipped
\* segment" warning and no item, and the other segments are processed as if
\* it were absent.
C8_SkippedSegmentWarns ==
    pc = "called" =>
        /\ WarningArgs(poc.warnings, SkippedNoQty) =
               SelectSeq(Segments(content), IsSkippedSegment)
        /\ poc.items =
               parse_order_content(Without(content, IsSkippedSegment), price_map).items

\* a segment without quantity followed by a segment that gives an item
C8_Witness ==
    /\ pc = "called"
    /\ Len(Segments(content)) >= 2
    /\ IsSkippedSegment(Segments(content)[1])
    /\ IsItemSegment(Segments(content)[2])
    /\ Len(poc.items) = 1
    /\ Len(poc.warnings) >= 1

NoKeyMatches(p) ==
    /\ SegmentName(p) \notin CatalogKeys(price_map)
    /\ MatchingKeys(SegmentName(p), price_map) = {}

UnpricedNames(items) ==
    LET its == SelectSeq(items, LAMBDA it : it.price.none)
    IN  [i \in 1..Len(its) |-> its[i].name]

NamesOf(segs) == [i \in 1..Len(segs) |-> SegmentName(segs[i])]

HasQuantityNoKey(p) == p # <<>> /\ HasQuantity(p) /\ NoKeyMatches(p)

\* C9 as stated: every segment with a trailing quantity whose name matches
\* no catalog key yields one item without price and one "Missing price
\* match" warning, and the price map is left as it was.
C9_NoMatchUnpriced ==
    /\ [](pc = "called" =>
            /\ UnpricedNames(poc.items) =
                   NamesOf(SelectSeq(Segments(content), HasQuantityNoKey))
            /\ WarningArgs(poc.warnings, MissingPrice) =
                   NamesOf(SelectSeq(Segments(content), HasQuantityNoKey)))
    /\ [][price_map' = price_map]_vars

IsUnmatchedItemSegment(p) == IsItemSegment(p) /\ NoKeyMatches(p)

\* C9 (amended): every segment with a trailing quantity that is no delivery
\* segment and does not contain the total-price mark, and whose name matches
\* no catalog key, yields one item without price and one "Missing price
\* match" warning, and the price map is left as it was.
C9_UnmatchedItemUnpriced ==
    /\ [](pc = "called" =>
            /\ UnpricedNames(poc.items) =
                   NamesOf(SelectSeq(Segments(content), IsUnmatchedItemSegment))
            /\ WarningArgs(poc.warnings, MissingPrice) =
                   NamesOf(SelectSeq(Segments(content), IsUnmatchedItemSegment)))
    /\ [][price_map' = price_map]_vars

\* an unmatched name next to a matched one, against a catalog that has keys
C9_Witness ==
    /\ pc = "called"
    /\ price_map # <<>>
    /\ Len(poc.items) = 2
    /\ \E i \in 1..2 : poc.items[i].price.none
    /\ \E i \in 1..2 : ~poc.items[i].price.none
    /\ Len(WarningArgs(poc.warnings, MissingPrice)) = 1

-----------------------------------------------------------------------------
(* C10 *)

\* the content cell of the j-th qualifying row
ContentOfOrder(sheet, j) ==
    LET rows == SelectSeq([i \in 1..Len(sheet.rows) |-> i],
                          LAMBDA i : i \in QualifyingRows(sheet))
    IN  PyStr(sheet.rows[rows[j]].c2)

IssueCount(issues, msg) == Count(issues, LAMBDA is : is.warning.msg = msg)

\* C10: the issues recorded against a parsed order are one per segment
\* skipped for lacking a quantity, one per item left without price, one
\* "No parsed items" exactly when the order has no item, and nothing else.
C10_IssuesPerOrder ==
    \A j \in 1..Len(orders_out) :
        LET oid  == orders_out[j].orderId
            iss  == IssuesOfOrder(issues_out, oid)
            its  == ItemsOfOrder(items_out, oid)
            text == ContentOfOrder(df, j)
        IN  /\ IssueCount(iss, SkippedNoQty) =
                   Count(Segments(text), IsSkippedSegment)
            /\ IssueCount(iss, MissingPrice) =
                   Count(its, LAMBDA it : it.price.none)
            /\ IssueCount(iss, NoParsedItems) = (IF its = <<>> THEN 1 ELSE 0)
            /\ Len(iss) = IssueCount(iss, SkippedNoQty)
                            + IssueCount(iss, MissingPrice)
                            + IssueCount(iss, NoParsedItems)

\* a returned import with an order that has both kinds of warning and an
\* order that has no issue at all
C10_Witness ==
    /\ pc = "returned"
    /\ \E j \in 1..Len(ret.orders) :
          LET iss == IssuesOfOrder(ret.issues, ret.orders[j].orderId)
          IN  /\ IssueCount(iss, SkippedNoQty) >= 1
              /\ IssueCount(iss, MissingPrice) >= 1
    /\ \E j \in 1..Len(ret.orders) :
          IssuesOfOrder(ret.issues, ret.orders[j].orderId) = <<>>

-----------------------------------------------------------------------------
(* C11 *)

\* the qualifying rows of a sheet in sheet order, none when a marker is absent
SelectedRows(sheet) ==
    IF HasHeaderMarker(sheet) /\ HasSummaryMarker(sheet)
    THEN SelectSeq([i \in 1..Len(sheet.rows) |-> i],
                   LAMBDA i : i \in QualifyingRows(sheet))
    ELSE <<>>

\* the customer written for the order of sheet row i
CustomerOfRow(sheet, i) == Strip(PyStr(sheet.rows[i].c1))

\* C11: the rows parsed as orders are exactly the rows strictly after the
\* first orders-header marker and strictly before the first summary marker
\* whose customer and content cells are both present: the orders emitted so
\* far are those of the first such rows, the rows still to parse are the
\* remaining ones, and a returned parse has one order per such row.
C11_SelectedRowsOnly ==
    LET q == SelectedRows(df)
    IN  /\ Len(orders_out) <= Len(q)
        /\ \A j \in 1..Len(orders_out) :
              /\ orders_out[j].customer = CustomerOfRow(df, q[j])
              /\ FirstHeader(df) < q[j]
              /\ q[j] < FirstSummary(df)
        /\ pc = "rows" =>
              orders_raw = SubSeq(q, Len(orders_out) + 1, Len(q))
        /\ pc = "returned" => Len(ret.orders) = Len(q)

\* a returned parse with one order of a sheet that has a complete row ahead
\* of the header and a complete row behind the summary marker
C11_Witness ==
    /\ pc = "returned"
    /\ Len(ret.orders) = 1
    /\ \E i \in 1..Len(df.rows) :
          /\ i < FirstHeader(df)
          /\ df.rows[i].c1.t # "nan" /\ df.rows[i].c2.t # "nan"
    /\ \E i \in 1..Len(df.rows) :
          /\ i > FirstSummary(df)
          /\ df.rows[i].c1.t # "nan" /\ df.rows[i].c2.t # "nan"

-----------------------------------------------------------------------------
(* C12 *)

\* the item name of sheet row i
NameOfRow(sheet, i) == Strip(sheet.rows[i].c0.s)

\* the last valid catalog row that carries the name
LastRowNamed(sheet, name) ==
    SetMax({i \in ValidCatalogRows(sheet) : NameOfRow(sheet, i) = name})

\* C12: when parse_item_catalog returns, the catalog holds exactly the names
\* of the rows after the summary marker and before the first total marker
\* whose first cell is a non-empty string other than a header and whose
\* second cell is a number; each name once, with the price of the last such
\* row that carries it, in the order of these last rows; the price map holds
\* the same names and prices.
C12_CatalogRowsExact ==
    pc = "catalog_called" =>
        LET V == ValidCatalogRows(df)
        IN  /\ {catalog_df[k].item_name : k \in 1..Len(catalog_df)} =
                   {NameOfRow(df, i) : i \in V}
            /\ \A k \in 1..Len(catalog_df) :
                  /\ catalog_df[k].unit_price =
                         df.rows[LastRowNamed(df, catalog_df[k].item_name)].c1.n
                  /\ \A l \in 1..Len(catalog_df) :
                        k < l => LastRowNamed(df, catalog_df[k].item_name)
                                   < LastRowNamed(df, catalog_df[l].item_name)
                  /\ DictHas(price_map, catalog_df[k].item_name)
                  /\ DictValue(price_map, catalog_df[k].item_name) =
                         catalog_df[k].unit_price
            /\ Len(price_map) = Len(catalog_df)

\* a returned catalog of a sheet where a name is priced twice, differently,
\* and where a priced row lies behind the total marker
C12_Witness ==
    /\ pc = "catalog_called"
    /\ \E i, j \in ValidCatalogRows(df) :
          /\ i < j
          /\ NameOfRow(df, i) = NameOfRow(df, j)
          /\ df.rows[i].c1.n # df.rows[j].c1.n
    /\ \E i \in 1..Len(df.rows) :
          /\ i \notin ValidCatalogRows(df)
          /\ i > FirstSummary(df)
          /\ IsItemRow(df, i)
          /\ NameOfRow(df, i) \notin {product_header, summary_marker, total_marker}

-----------------------------------------------------------------------------
(* C13 *)

\* the position in orders_out of the order an item belongs to
OrderPosition(orders, oid) ==
    CHOOSE j \in 1..Len(orders) : orders[j].orderId = oid

\* C13: order is preserved.  The j-th order emitted is that of the j-th
\* selected sheet row; the items of an order are those of the item segments
\* of its content cell, in source order (the i-th item carries the quantity
\* of the i-th item segment and its name or a catalog key matching it); and
\* the items of an earlier order stand ahead of those of a later one.
C13_SourceOrder ==
    /\ \A j \in 1..Len(orders_out) :
          LET row  == SelectedRows(df)[j]
              segs == ItemSegments(PyStr(df.rows[row].c2))
              its  == ItemsOfOrder(items_out, orders_out[j].orderId)
          IN  /\ orders_out[j].customer = CustomerOfRow(df, row)
              /\ Len(its) = Len(segs)
              /\ \A i \in 1..Len(segs) :
                    /\ its[i].quantity = int(QtyDigits(segs[i]))
                    /\ \/ its[i].name = SegmentName(segs[i])
                       \/ its[i].name \in MatchingKeys(SegmentName(segs[i]),
                                                       price_map)
    /\ \A a, b \in 1..Len(items_out) :
          a < b => OrderPosition(orders_out, items_out[a].orderId)
                     <= OrderPosition(orders_out, items_out[b].orderId)
    /\ pc = "returned" => ret.orders = orders_out /\ ret.items = items_out

\* a returned parse of two orders of different customers, the first of which
\* has two items of different quantities
C13_Witness ==
    /\ pc = "returned"
    /\ Len(ret.orders) >= 2
    /\ ret.orders[1].customer # ret.orders[2].customer
    /\ LET its == ItemsOfOrder(ret.items, ret.orders[1].orderId)
       IN  /\ Len(its) >= 2
           /\ its[1].quantity # its[2].quantity
    /\ ItemsOfOrder(ret.items, ret.orders[2].orderId) # <<>>

-----------------------------------------------------------------------------
(* C14 *)

\* the identifiers a result carries: those of its orders and of its items
IdsOf(r) ==
    {r.orders[j].orderId : j \in 1..Len(r.orders)}
      \cup {r.items[i].itemId : i \in 1..Len(r.items)}

\* a result with every identifier replaced by a position: an order by its
\* place among the orders, an item by its place among the items
Positional(r) ==
    LET place(oid) == OrderPosition(r.orders, oid)
    IN  [status    |-> r.status,
         error     |-> r.error,
         orders    |-> [j \in 1..Len(r.orders) |->
                           [r.orders[j] EXCEPT !.orderId = j]],
         items     |-> [i \in 1..Len(r.items) |->
                           [r.items[i] EXCEPT !.itemId = i,
                                              !.orderId = place(@)]],
         checklist |-> [i \in 1..Len(r.checklist) |->
                           [r.checklist[i] EXCEPT !.itemId = i,
                                                  !.orderId = place(@)]],
         catalog   |-> r.catalog,
         issues    |-> [i \in 1..Len(r.issues) |->
                           [r.issues[i] EXCEPT !.orderId = place(@)]]]

-----------------------------------------------------------------------------
(* C15, C16 *)

\* the Import handler ran last and its parse returned the frames in ret
ImportParsed == last.op = "import" /\ ret.status = "returned"

\* C15: after an Import whose sheet parses, the store holds what the parser
\* emitted: for every parsed order one row of orders with its id and
\* customer, and for every parsed item one row of items with its id and the
\* same order_id, name, quantity and price, also when a content cell names
\* an item twice.
C15_ImportStoresVerbatim ==
    ImportParsed =>
        /\ \A j \in 1..Len(ret.orders) :
              Cardinality({o \in db_orders :
                              /\ o.order_id = ret.orders[j].orderId
                              /\ o.customer = ret.orders[j].customer}) = 1
        /\ \A i \in 1..Len(ret.items) :
              Cardinality({it \in db_items :
                              /\ it.item_id = ret.items[i].itemId
                              /\ it.order_id = ret.items[i].orderId
                              /\ it.name = ret.items[i].name
                              /\ it.quantity = ret.items[i].quantity
                              /\ it.price = ret.items[i].price}) = 1

\* C16: an Import whose parse raises leaves the three tables as they were
\* before the button was pressed, with or without "wipe existing data
\* before import".
C16_FailedImportChangesNothing ==
    [][(last'.op = "import" /\ ret'.status = "raised") =>
           UNCHANGED <<db_orders, db_items, db_catalog>>]_vars

-----------------------------------------------------------------------------
(* C17 *)

\* the row is marked delivered although the order is no delivery order
DeliveredWithoutDelivery(o) == o.is_delivered = 1 /\ o.wants_delivery = 0

\* C17: once init_db() has run, no order is delivered without being a
\* delivery order; an INSERT, or an UPDATE of is_delivered, that would make
\* such a row is aborted and leaves the table as it was; and an UPDATE that
\* sets wants_delivery to 0 leaves the row with is_delivered = 0.
C17_DeliveredNeedsDelivery ==
    /\ [](pc = "sql" => \A o \in db_orders : ~DeliveredWithoutDelivery(o))
    /\ [][\A oid \in 1..MaxDbOrders :
             /\ SqlInsertOrder(PlainOrder(oid, 0, 1)) =>
                    (~last'.ok /\ UNCHANGED db_orders)
             /\ (SqlUpdateIsDelivered(oid, 1)
                   /\ \E o \in db_orders :
                         o.order_id = oid /\ o.wants_delivery = 0) =>
                    (~last'.ok /\ UNCHANGED db_orders)
             /\ SqlUpdateWantsDelivery(oid, 0) =>
                    \A o \in db_orders' :
                        o.order_id = oid =>
                            o.wants_delivery = 0 /\ o.is_delivered = 0]_vars

\* an UPDATE of is_delivered was aborted on a store that holds an order that
\* is no delivery order and an order that was delivered
C17_Witness ==
    /\ pc = "sql"
    /\ last.op = "update_delivered"
    /\ ~last.ok
    /\ \E o \in db_orders : o.wants_delivery = 0
    /\ \E o \in db_orders : o.is_delivered = 1


-----------------------------------------------------------------------------
(* C18, C19 *)

\* every item of the order is packed in full
AllPacked(oid) ==
    \A it \in ItemsIn(db_items, oid) : it.packed_quantity >= it.quantity

\* C18: is_fulfilled follows the items.  In every state of the store, hence
\* after every import, add_item_to_order, set_all_packed, item removal and
\* change of a packed or ordered quantity, an order has is_fulfilled = 1
\* exactly when it has at least one item and every item of it has
\* packed_quantity >= quantity.
C18_FulfilledIffAllPacked ==
    \A o \in db_orders :
        o.is_fulfilled = 1 <=>
            (ItemsIn(db_items, o.order_id) # {} /\ AllPacked(o.order_id))

\* the last item of a fulfilled order was removed, next to an order that
\* stays fulfilled with its item
C18_Witness ==
    /\ last.op = "remove_item"
    /\ \E o \in db_orders :
          o.is_fulfilled = 0 /\ ItemsIn(db_items, o.order_id) = {}
    /\ \E o \in db_orders :
          o.is_fulfilled = 1 /\ ItemsIn(db_items, o.order_id) # {}

\* the handlers after which the total is recomputed
TotalHandlers ==
    {"import", "add_item", "set_all_packed", "remove_item", "packed", "ordered"}

\* C19: after an import and after every item-changing handler the stored
\* total_dollar of every order is the sum of quantity x price over its
\* stored items, a missing price counting as 0; an imported order is never
\* left with the parser's None.
C19_TotalIsItemSum ==
    last.op \in TotalHandlers =>
        \A o \in db_orders :
            o.total_dollar = Some(SumLines(ItemsIn(db_items, o.order_id)))

-----------------------------------------------------------------------------
(* C20 *)

\* no two rows of items share (order_id, name)
NamesUnique ==
    \A a, b \in db_items :
        (a.order_id = b.order_id /\ a.name = b.name) => a = b

\* the step merged qty into the row of (oid, name): the row keeps its id,
\* its quantity grows by qty, its packed_quantity is clamped to the new
\* quantity, and no row is inserted
Merged(oid, name, qty) ==
    \E old \in db_items, new \in db_items' :
        /\ old.order_id = oid /\ old.name = name
        /\ new.item_id = old.item_id
        /\ new.order_id = oid /\ new.name = name
        /\ new.quantity = old.quantity + qty
        /\ new.packed_quantity = SetMin({old.packed_quantity, new.quantity})
        /\ db_items' = (db_items \ {old}) \cup {new}

\* the step inserted exactly one row for (oid, name), of quantity qty, with
\* nothing packed
Inserted(oid, name, qty) ==
    \E new \in db_items' :
        /\ new \notin db_items
        /\ db_items' = db_items \cup {new}
        /\ new.order_id = oid /\ new.name = name
        /\ new.quantity = qty
        /\ new.packed_quantity = 0

\* C20: the items table never holds two rows with the same (order_id,
\* name), and a step of add_item_to_order either merges the quantity added
\* into the row that has the name already, inserting nothing, or, when the
\* order has no row of that name, inserts exactly one row with
\* packed_quantity 0.
C20_OneRowPerName ==
    /\ []NamesUnique
    /\ [][last'.op = "add_item" =>
             \E o \in db_orders, c \in db_catalog, qty \in 1..MaxQty :
                IF \E it \in db_items :
                      it.order_id = o.order_id /\ it.name = c.item_name
                THEN last'.flag /\ Merged(o.order_id, c.item_name, qty)
                ELSE ~last'.flag /\ Inserted(o.order_id, c.item_name, qty)]_vars

\* add_item_to_order has merged a quantity into an existing row of an order
\* that has a second item
C20_Witness ==
    /\ last.op = "add_item"
    /\ last.flag
    /\ \E a, b \in db_items :
          /\ a.order_id = b.order_id
          /\ a.name # b.name
          /\ a.quantity = MaxQty

-----------------------------------------------------------------------------
(* C22: delivered orders and the fulfilled flag *)

\* C22: in every state of the store, an order with is_delivered = 1 has
\* is_fulfilled = 1, whatever Delivered toggles, item additions, item
\* removals and packed or ordered quantity edits came before.
C22_DeliveredOnlyWhileFulfilled ==
    \A o \in db_orders : o.is_delivered = 1 => o.is_fulfilled = 1


-----------------------------------------------------------------------------
(* C21, C23, C24: two sessions *)

\* C21: in every state of the store, every item has
\* 0 <= packed_quantity <= quantity, also when the two sessions edit the
\* item from the values each of them read.
C21_PackedWithinQuantity ==
    \A it \in db_items :
        0 <= it.packed_quantity /\ it.packed_quantity <= it.quantity

\* C23: no script run calls more than one dialog function, also when
\* active_modal is still set from an earlier run.
C23_OneDialogPerRun ==
    \A s \in Sessions : Len(script_run[s].dialogs) <= 1

\* C24: in every state of the store, the order_id of every item is the
\* order_id of a stored order, also when one session adds an item while the
\* other removes the order.
C24_ItemsHaveTheirOrder ==
    \A it \in db_items : HasOrder(db_orders, it.order_id)


====
